---- MODULE Spec2Model ----
(***************************************************************************)
(* Bootstrap-and-validation orchestrator of the video processing system.   *)
(*                                                                         *)
(*   SpecDeploy : deploy.py  - menu loop, quick_deploy, start_server and   *)
(*                the service child process, with process interrupts.      *)
(*   SpecProv   : setup_api_keys.py - the interactive provisioner and the  *)
(*                .env configuration store it writes with set_key.         *)
(*                                                                         *)
(* Text is modelled as sequences of one-character strings so that prefix   *)
(* tests, strip() and lower() are computed, not assumed.                   *)
(***************************************************************************)
EXTENDS Integers, Sequences, FiniteSets, TLC

VARIABLES
    \* ---- the file system and process environment (both programs) ----
    envExists,      \* Path(".env").exists()
    envFile,        \* content of .env : sequence of <<key, value>> lines
    environ,        \* os.environ of the modelled process, restricted to Keys
    \* ---- deploy.py ----
    dpc,            \* position of deploy.main
    choice,         \* the menu choice being executed
    qdIdx,          \* index into quick_deploy's steps list
    qdLog,          \* start/end events of the steps of this quick_deploy run
    qdResult,       \* return value of quick_deploy ("-" while none)
    failMsgs,       \* step names printed as "<step>失败", in order
    cfgMsgs,        \* what check_configuration printed
    pyOk,           \* sys.version_info >= (3, 8)
    depsOk,         \* fastapi and uvicorn importable
    dotenvOk,       \* dotenv importable
    dirs,           \* directories existing in the working directory
    blocked,        \* names for which Path.mkdir raises (a file is in the way)
    installRuns,    \* how often install_dependencies ran in this process
    child,          \* the service child process of start_server
    srvCalls,       \* how often start_server was invoked
    interrupted,    \* a KeyboardInterrupt was delivered to deploy.main
    exitStatus,     \* "running", "0" or "1"
    \* ---- setup_api_keys.py ----
    exampleExists,  \* Path(".env.example").exists()
    stdin,          \* standard input of setup_api_keys: a terminal, or the lines left of a pipe
    ppc,            \* position of setup_api_keys.main
    pExit,          \* "running", "0" or "1"
    pInterrupted,   \* a KeyboardInterrupt was delivered to setup_api_keys.main
    apiKeyIn,       \* configure_openai: api_key, the value entered last
    secIdIn,        \* configure_tencent: secret_id entered last
    secKeyIn,       \* configure_tencent: secret_key entered last
    openai_key,     \* main: result of configure_openai
    tencent_id,     \* main: result of configure_tencent
    tencent_key,
    optSettings,    \* main: optional_settings, as <<key, value>> items in dict order
    kept,           \* per service: the existing credential was kept
    testCalls,      \* per service: verification calls made
    lastTest,       \* the last verification call: service, argument, outcome, result
    saveList,       \* save_configuration: the set_key calls still to make
    written,        \* the set_key calls of this save_configuration, all of them
    lastWrite,      \* the last set_key call and the file it found
    storeBefore,    \* the store content save_configuration started from
    edits,          \* manual edits of .env made while the provisioner ran
    lastEdit,       \* the last manual edit
    \* ---- the interpreter of quick_start.py and install_dependencies.py ----
    pyMinor,        \* sys.version_info.minor (major is 3)
    modules,        \* the importable module names
    \* ---- quick_start.py ----
    qpc,            \* position of quick_start.main
    qExit,          \* "running", "0", "1" or "sigint" (uncaught KeyboardInterrupt)
    qPip,           \* pip invocations made by this run
    qOut,           \* what the run printed, as message tags in order
    qChild,         \* the uvicorn child of start_server
    \* ---- install_dependencies.py ----
    ipc,            \* position of install_dependencies.main
    iExit,          \* "running", "0", "1" or "sigint"
    iPip,           \* pip invocations made by this run
    iOut,           \* what the run printed, as message tags in order
    pipOk,          \* pip importable
    reqExists,      \* Path("requirements.txt").exists()
    \* ---- test_system.py ----
    tpc,            \* position of test_system.main
    tExit,          \* "running", "0" or "1"
    tInterrupted,   \* a KeyboardInterrupt was delivered to test_system.main
    results,        \* main: results, as <<name, value>> items in dict order
    report,         \* what generate_test_report printed
    tOut,           \* messages printed outside the report, as tags in order
    srvThread,      \* the background thread of test_api_endpoints
    probes,         \* the endpoint probes made so far
    envDecodable,   \* .env can be decoded as UTF-8
    appTree,        \* the application tree is complete
    elapsed,        \* time units since server_thread.start(), counted up to the thread's timeout
    repIn,          \* generate_test_report on its own: the argument
    repOut,         \* generate_test_report on its own: what it printed
    secIn,          \* the keep prompt on its own: the stored credential
    shown           \* the keep prompt on its own: what was displayed

dnodirs == <<dpc, choice, qdIdx, qdLog, qdResult, failMsgs, cfgMsgs, pyOk, depsOk,
             dotenvOk, blocked, installRuns, child, srvCalls, interrupted,
             exitStatus>>
dvars == <<dpc, choice, qdIdx, qdLog, qdResult, failMsgs, cfgMsgs, pyOk, depsOk,
           dotenvOk, dirs, blocked, installRuns, child, srvCalls, interrupted,
           exitStatus>>
pvars == <<exampleExists, ppc, pExit, pInterrupted, apiKeyIn, secIdIn, secKeyIn,
           openai_key, tencent_id, tencent_key, optSettings, kept, testCalls,
           lastTest, saveList, written, lastWrite, storeBefore, edits, lastEdit,
           stdin>>
fvars == <<envExists, envFile, environ>>
evars == <<pyMinor, modules>>
qvars == <<qpc, qExit, qPip, qOut, qChild>>
ivars == <<ipc, iExit, iPip, iOut, pipOk, reqExists>>
tvars == <<tpc, tExit, tInterrupted, results, report, tOut, srvThread, probes,
           envDecodable, appTree, elapsed>>
rvars == <<repIn, repOut, secIn, shown>>
ovars == <<evars, qvars, ivars, tvars, rvars>>
vars == <<fvars, dvars, pvars, ovars>>

-----------------------------------------------------------------------------
(* Text *)

SK == <<"s", "k", "-">>
SKYOUR == <<"s", "k", "-", "y", "o", "u", "r", "-">>
YOUR == <<"y", "o", "u", "r", "-">>
Empty == <<>>

\* str.startswith
StartsWith(s, p) == Len(s) >= Len(p) /\ SubSeq(s, 1, Len(p)) = p

\* str.strip(), for the blank
RECURSIVE LStrip(_)
LStrip(s) == IF s # <<>> /\ Head(s) = " " THEN LStrip(Tail(s)) ELSE s
RECURSIVE RStrip(_)
RStrip(s) == IF s # <<>> /\ s[Len(s)] = " " THEN RStrip(SubSeq(s, 1, Len(s) - 1)) ELSE s
Strip(s) == RStrip(LStrip(s))

\* str.lower(), on the letters the inputs use
LowerChar(c) ==
    CASE c = "Y" -> "y" [] c = "N" -> "n" [] c = "E" -> "e" [] c = "S" -> "s"
      [] c = "A" -> "a" [] c = "B" -> "b" [] OTHER -> c
Lower(s) == [i \in 1..Len(s) |-> LowerChar(s[i])]

\* Python's None, as a function result
None == <<"<None>">>

\* truth value of a str-or-None
Truthy(v) == v # None /\ v # Empty

\* a variable that is not set in os.environ / a key that is not in the file
Unset == <<"<unset>">>

Keys == {"OPENAI_API_KEY", "TENCENT_SECRET_ID", "TENCENT_SECRET_KEY",
         "TENCENT_ASR_SECRET_ID", "TENCENT_ASR_SECRET_KEY",
         "TENCENT_TMT_SECRET_ID", "TENCENT_TMT_SECRET_KEY",
         "SPEECH_SERVICE", "VIDEO_SERVICE", "LOG_LEVEL"}

\* sample secrets
OA1 == <<"s", "k", "-", "A">>
OA2 == <<"s", "k", "-", "B">>
OAPH == <<"s", "k", "-", "y", "o", "u", "r", "-", "k">>
TID1 == <<"I", "D", "1">>
TID2 == <<"I", "D", "2">>
TIDPH == <<"y", "o", "u", "r", "-", "i", "d">>
TKEY1 == <<"K", "1">>
TKEY2 == <<"K", "2">>
INFO == <<"I", "N", "F", "O">>
DEBUG == <<"D", "E", "B", "U", "G">>
Y == <<"y">>
ONE == <<"1">>
OPENAI == <<"o", "p", "e", "n", "a", "i">>
XUNFEI == <<"x", "u", "n", "f", "e", "i">>
TENCENT == <<"t", "e", "n", "c", "e", "n", "t">>
LOCALSVC == <<"l", "o", "c", "a", "l">>

\* the value of the last line of the file that sets k (dotenv_values)
RECURSIVE Lookup(_, _)
Lookup(file, k) ==
    IF file = <<>> THEN Unset
    ELSE IF file[Len(file)][1] = k THEN file[Len(file)][2]
    ELSE Lookup(SubSeq(file, 1, Len(file) - 1), k)

\* load_dotenv(): override=False, variables already set are kept
LoadDotenv(env, exists, file) ==
    [k \in Keys |-> IF env[k] # Unset THEN env[k]
                    ELSE IF exists THEN Lookup(file, k) ELSE Unset]

\* os.getenv(k, default)
Getenv(env, k, default) == IF env[k] = Unset THEN default ELSE env[k]

EmptyEnviron == [k \in Keys |-> Unset]

\* sample .env files
FileReal == << <<"LOG_LEVEL", INFO>>, <<"OPENAI_API_KEY", OA1>>,
               <<"TENCENT_SECRET_ID", TID1>>, <<"TENCENT_SECRET_KEY", TKEY1>> >>
FilePlaceholder == << <<"OPENAI_API_KEY", OAPH>>, <<"TENCENT_SECRET_ID", TIDPH>>,
                      <<"TENCENT_SECRET_KEY", TKEY1>>, <<"LOG_LEVEL", INFO>> >>
FileOther == << <<"LOG_LEVEL", INFO>> >>
FileAliased == << <<"TENCENT_SECRET_ID", TID1>>, <<"TENCENT_SECRET_KEY", TKEY1>>,
                  <<"TENCENT_ASR_SECRET_ID", TID1>>, <<"TENCENT_ASR_SECRET_KEY", TKEY1>>,
                  <<"LOG_LEVEL", INFO>>,
                  <<"TENCENT_TMT_SECRET_ID", TID1>>, <<"TENCENT_TMT_SECRET_KEY", TKEY1>>,
                  <<"OPENAI_API_KEY", OA1>> >>
\* sample .env.example
FileExample == << <<"OPENAI_API_KEY", OAPH>>, <<"LOG_LEVEL", DEBUG>>,
                  <<"TENCENT_SECRET_ID", TIDPH>> >>

-----------------------------------------------------------------------------
(* deploy.py *)

Directories == <<"temp", "output", "uploads", "logs">>

\* the dependency check and the directory creation exchanged
stepsSwapped == <<"check_system", "check_dependencies", "create_directories",
                  "check_configuration", "run_tests">>

\* quick_deploy's steps list, by position
steps == <<"check_system", "create_directories", "check_dependencies",
           "check_configuration", "run_tests">>

\* check_system(): the interpreter is at least 3.8
check_system == pyOk

\* check_dependencies(): import fastapi, uvicorn
check_dependencies == depsOk

\* create_directories(): mkdir(exist_ok=True) for each name in order; a name
\* that cannot be made raises and leaves the earlier ones made
RECURSIVE MkdirAll(_, _)
MkdirAll(i, have) ==
    IF i > Len(Directories) THEN [res |-> "True", dirs |-> have]
    ELSE IF Directories[i] \in blocked THEN [res |-> "raise", dirs |-> have]
    ELSE MkdirAll(i + 1, have \cup {Directories[i]})

create_directories == MkdirAll(1, dirs)

\* check_configuration that passes when the file is missing
check_configurationLenient ==
    IF ~envExists THEN [res |-> "True", msgs |-> {"env_missing"}, env |-> environ]
    ELSE IF ~dotenvOk THEN [res |-> "raise", msgs |-> {}, env |-> environ]
    ELSE [res |-> "True", msgs |-> {"openai_configured", "tencent_configured"},
          env |-> LoadDotenv(environ, envExists, envFile)]

\* check_configuration that fails on an unconfigured provider, as
\* quick_start.test_api_keys does
check_configurationStrict ==
    IF ~envExists THEN [res |-> "False", msgs |-> {"env_missing"}, env |-> environ]
    ELSE IF ~dotenvOk THEN [res |-> "raise", msgs |-> {}, env |-> environ]
    ELSE LET env == LoadDotenv(environ, envExists, envFile)
             okey == Getenv(env, "OPENAI_API_KEY", Empty)
         IN IF StartsWith(okey, SKYOUR) \/ okey = Empty
            THEN [res |-> "False", msgs |-> {"openai_unconfigured"}, env |-> env]
            ELSE [res |-> "True", msgs |-> {"openai_configured"}, env |-> env]

\* check_configuration(): no file -> False; otherwise import dotenv, load,
\* report each provider, and return True whatever the report says
check_configuration ==
    IF ~envExists THEN [res |-> "False", msgs |-> {"env_missing"}, env |-> environ]
    ELSE IF ~dotenvOk THEN [res |-> "raise", msgs |-> {}, env |-> environ]
    ELSE LET env == LoadDotenv(environ, envExists, envFile)
             okey == Getenv(env, "OPENAI_API_KEY", Empty)
             tid == Getenv(env, "TENCENT_SECRET_ID", Empty)
         IN [res |-> "True",
             msgs |-> {IF StartsWith(okey, SKYOUR) \/ okey = Empty
                       THEN "openai_unconfigured" ELSE "openai_configured",
                       IF StartsWith(tid, YOUR) \/ tid = Empty
                       THEN "tencent_unconfigured" ELSE "tencent_configured"},
             env |-> env]

\* install_dependencies(): the installer's exit code decides; any exception
\* is caught and is False
InstallOutcomes == {"rc0", "rc_nonzero", "exception"}
install_dependencies(outcome) == IF outcome = "rc0" THEN "True" ELSE "False"

\* run_tests(): the harness's exit code decides; a timeout or an exception
\* is False; a missing script is True
TestOutcomes == {"no_script", "rc0", "rc_nonzero", "timeout", "exception"}
run_tests(outcome) == IF outcome \in {"no_script", "rc0"} THEN "True" ELSE "False"

\* setup_configuration(): the provisioner's exit code decides
SetupOutcomes == {"no_script", "rc0", "rc_nonzero", "timeout", "exception"}
setup_configuration(outcome) == IF outcome = "rc0" THEN "True" ELSE "False"

\* quick_deploy, lines 258-265: what follows a step that returned False
Remediation(step_name) ==
    IF step_name = "check_dependencies" THEN "install"
    ELSE IF step_name = "check_configuration" THEN "hint"
    ELSE "none"

Event(ev, step_name, res) == [ev |-> ev, step |-> step_name, res |-> res]

\* bound on the install_dependencies runs of one process that are counted
MaxInstalls == 2

\* main, choice = input(...).strip() : the six actions and anything else
Choices == {"1", "2", "3", "4", "5", "6", "7", "abc", ""}

InitDeployEnv ==
    /\ envExists \in BOOLEAN
    /\ envFile \in (IF envExists THEN {FileReal, FilePlaceholder, FileOther} ELSE {<<>>})
    /\ environ = EmptyEnviron
    /\ pyOk \in BOOLEAN
    /\ depsOk \in BOOLEAN
    /\ dotenvOk \in BOOLEAN
    /\ dirs \in {{}, {"temp", "logs"}}
    /\ blocked \in {{}, {"uploads"}}

InitDeployProc ==
    /\ dpc = "menu"
    /\ choice = ""
    /\ qdIdx = 0
    /\ qdLog = <<>>
    /\ qdResult = "-"
    /\ failMsgs = <<>>
    /\ cfgMsgs = {}
    /\ installRuns = 0
    /\ child = "none"
    /\ srvCalls = 0
    /\ interrupted = FALSE
    /\ exitStatus = "running"

\* main, lines 276-304: one pass of the menu loop up to the call it makes
Menu(c) ==
    /\ dpc = "menu"
    /\ choice' = c
    /\ CASE c = "1" -> /\ dpc' = "qd_loop"
                       /\ qdIdx' = 1
                       /\ UNCHANGED <<installRuns, srvCalls, exitStatus>>
         [] c = "2" -> /\ installRuns < MaxInstalls
                       /\ dpc' = "m_install"
                       /\ installRuns' = installRuns + 1
                       /\ UNCHANGED <<qdIdx, srvCalls, exitStatus>>
         [] c = "3" -> /\ dpc' = "m_setup"
                       /\ UNCHANGED <<qdIdx, installRuns, srvCalls, exitStatus>>
         [] c = "4" -> /\ dpc' = "m_tests"
                       /\ UNCHANGED <<qdIdx, installRuns, srvCalls, exitStatus>>
         [] c = "5" -> /\ dpc' = "srv_start"
                       /\ srvCalls' = srvCalls + 1
                       /\ UNCHANGED <<qdIdx, installRuns, exitStatus>>
         [] c = "6" -> /\ dpc' = "exited"
                       /\ exitStatus' = "0"
                       /\ UNCHANGED <<qdIdx, installRuns, srvCalls>>
         [] OTHER   -> /\ dpc' = "pause"
                       /\ UNCHANGED <<qdIdx, installRuns, srvCalls, exitStatus>>
    /\ UNCHANGED <<fvars, qdLog, qdResult, failMsgs, cfgMsgs, pyOk, depsOk, dotenvOk,
                   dirs, blocked, child, interrupted>>
    /\ UNCHANGED <<pvars, ovars>>

\* a pause after which the process ends where the menu should be shown again
PauseEnds ==
    /\ dpc = "pause"
    /\ dpc' = "exited"
    /\ UNCHANGED <<fvars, choice, qdIdx, qdLog, qdResult, failMsgs, cfgMsgs, pyOk,
                   depsOk, dotenvOk, dirs, blocked, installRuns, child, srvCalls,
                   interrupted, exitStatus>>
    /\ UNCHANGED <<pvars, ovars>>

\* main, line 304: input("按回车键继续...") returns and the loop repeats
Pause ==
    /\ dpc = "pause"
    /\ dpc' = "menu"
    /\ UNCHANGED <<fvars, choice, qdIdx, qdLog, qdResult, failMsgs, cfgMsgs, pyOk,
                   depsOk, dotenvOk, dirs, blocked, installRuns, child, srvCalls,
                   interrupted, exitStatus>>
    /\ UNCHANGED <<pvars, ovars>>

\* main, line 285: install_dependencies() from the menu returns
MenuInstallReturn(outcome) ==
    /\ dpc = "m_install"
    /\ dpc' = "pause"
    /\ depsOk' \in (IF outcome = "exception" THEN {depsOk} ELSE {depsOk, TRUE})
    /\ UNCHANGED <<fvars, choice, qdIdx, qdLog, qdResult, failMsgs, cfgMsgs, pyOk,
                   dotenvOk, dirs, blocked, installRuns, child, srvCalls, interrupted,
                   exitStatus>>
    /\ UNCHANGED <<pvars, ovars>>

\* main, line 288: setup_configuration() from the menu returns; the
\* provisioner it ran may have written the configuration file
MenuSetupReturn(outcome) ==
    /\ dpc = "m_setup"
    /\ dpc' = "pause"
    /\ \/ UNCHANGED <<envExists, envFile>>
       \/ /\ setup_configuration(outcome) = "True"
          /\ envExists' = TRUE
          /\ envFile' = FileReal
    /\ UNCHANGED <<environ, choice, qdIdx, qdLog, qdResult, failMsgs, cfgMsgs, pyOk,
                   depsOk, dotenvOk, dirs, blocked, installRuns, child, srvCalls,
                   interrupted, exitStatus>>
    /\ UNCHANGED <<pvars, ovars>>

\* main, line 291: run_tests() from the menu returns
MenuTestsReturn(outcome) ==
    /\ dpc = "m_tests"
    /\ run_tests(outcome) \in {"True", "False"}
    /\ dpc' = "pause"
    /\ UNCHANGED <<fvars, choice, qdIdx, qdLog, qdResult, failMsgs, cfgMsgs, pyOk,
                   depsOk, dotenvOk, dirs, blocked, installRuns, child, srvCalls,
                   interrupted, exitStatus>>
    /\ UNCHANGED <<pvars, ovars>>

\* quick_deploy, lines 253-255: the loop takes the next step and calls it
QdStepStart ==
    /\ dpc = "qd_loop"
    /\ qdIdx <= Len(steps)
    /\ qdLog' = Append(qdLog, Event("start", steps[qdIdx], "-"))
    /\ dpc' = "qd_step"
    /\ UNCHANGED <<fvars, choice, qdIdx, qdResult, failMsgs, cfgMsgs, pyOk, depsOk,
                   dotenvOk, dirs, blocked, installRuns, child, srvCalls, interrupted,
                   exitStatus>>
    /\ UNCHANGED <<pvars, ovars>>

\* quick_deploy, lines 255-265: the step returned res (or raised)
AfterStep(res) ==
    LET name == steps[qdIdx]
        log == Append(qdLog, Event("end", name, res))
    IN  /\ qdLog' = log
        /\ CASE res = "True" ->
                  /\ qdIdx' = qdIdx + 1
                  /\ dpc' = "qd_loop"
                  /\ UNCHANGED <<qdResult, failMsgs, installRuns, exitStatus>>
             [] res = "False" /\ Remediation(name) = "install" ->
                  /\ failMsgs' = Append(failMsgs, name)
                  /\ installRuns' = installRuns + 1
                  /\ dpc' = "qd_install"
                  /\ UNCHANGED <<qdIdx, qdResult, exitStatus>>
             [] res = "False" /\ Remediation(name) = "hint" ->
                  /\ failMsgs' = failMsgs \o <<name, "run setup_api_keys.py">>
                  /\ qdResult' = "False"
                  /\ dpc' = "qd_ret"
                  /\ UNCHANGED <<qdIdx, installRuns, exitStatus>>
             [] res = "False" /\ Remediation(name) = "none" ->
                  /\ failMsgs' = Append(failMsgs, name)
                  /\ qdResult' = "False"
                  /\ dpc' = "qd_ret"
                  /\ UNCHANGED <<qdIdx, installRuns, exitStatus>>
             [] OTHER ->  \* the exception reaches main's except Exception
                  /\ dpc' = "exited"
                  /\ exitStatus' = "1"
                  /\ UNCHANGED <<qdIdx, qdResult, failMsgs, installRuns>>

StepCheckSystem ==
    /\ dpc = "qd_step" /\ steps[qdIdx] = "check_system"
    /\ AfterStep(IF check_system THEN "True" ELSE "False")
    /\ UNCHANGED <<fvars, choice, cfgMsgs, pyOk, depsOk, dotenvOk, dirs, blocked,
                   child, srvCalls, interrupted>>
    /\ UNCHANGED <<pvars, ovars>>

StepCreateDirectories ==
    /\ dpc = "qd_step" /\ steps[qdIdx] = "create_directories"
    /\ AfterStep(create_directories.res)
    /\ dirs' = create_directories.dirs
    /\ UNCHANGED <<fvars, choice, cfgMsgs, pyOk, depsOk, dotenvOk, blocked,
                   child, srvCalls, interrupted>>
    /\ UNCHANGED <<pvars, ovars>>

StepCheckDependencies ==
    /\ dpc = "qd_step" /\ steps[qdIdx] = "check_dependencies"
    /\ AfterStep(IF check_dependencies THEN "True" ELSE "False")
    /\ UNCHANGED <<fvars, choice, cfgMsgs, pyOk, depsOk, dotenvOk, dirs, blocked,
                   child, srvCalls, interrupted>>
    /\ UNCHANGED <<pvars, ovars>>

StepCheckConfiguration ==
    /\ dpc = "qd_step" /\ steps[qdIdx] = "check_configuration"
    /\ AfterStep(check_configuration.res)
    /\ cfgMsgs' = check_configuration.msgs
    /\ environ' = check_configuration.env
    /\ UNCHANGED <<envExists, envFile, choice, pyOk, depsOk, dotenvOk, dirs, blocked,
                   child, srvCalls, interrupted>>
    /\ UNCHANGED <<pvars, ovars>>

StepRunTests(outcome) ==
    /\ dpc = "qd_step" /\ steps[qdIdx] = "run_tests"
    /\ AfterStep(run_tests(outcome))
    /\ UNCHANGED <<fvars, choice, cfgMsgs, pyOk, depsOk, dotenvOk, dirs, blocked,
                   child, srvCalls, interrupted>>
    /\ UNCHANGED <<pvars, ovars>>

\* quick_deploy that runs the installer a second time after it failed
QdInstallReturnRetrying(outcome) ==
    /\ dpc = "qd_install"
    /\ qdLog' = Append(qdLog, Event("remediate", "install_dependencies",
                                    install_dependencies(outcome)))
    /\ depsOk' \in (IF outcome = "exception" THEN {depsOk} ELSE {depsOk, TRUE})
    /\ IF install_dependencies(outcome) = "True"
       THEN /\ qdIdx' = qdIdx + 1
            /\ dpc' = "qd_loop"
            /\ UNCHANGED qdResult
       ELSE IF \E i \in 1..Len(qdLog) : qdLog[i].ev = "remediate"
       THEN /\ qdResult' = "False"
            /\ dpc' = "qd_ret"
            /\ UNCHANGED qdIdx
       ELSE /\ dpc' = "qd_install"
            /\ UNCHANGED <<qdIdx, qdResult>>
    /\ UNCHANGED <<fvars, choice, failMsgs, cfgMsgs, pyOk, dotenvOk, dirs, blocked,
                   installRuns, child, srvCalls, interrupted, exitStatus>>
    /\ UNCHANGED <<pvars, ovars>>

\* quick_deploy, lines 259-261 and 265: the remediation install returned
QdInstallReturn(outcome) ==
    /\ dpc = "qd_install"
    /\ qdLog' = Append(qdLog, Event("remediate", "install_dependencies",
                                    install_dependencies(outcome)))
    /\ depsOk' \in (IF outcome = "exception" THEN {depsOk} ELSE {depsOk, TRUE})
    /\ IF install_dependencies(outcome) = "True"
       THEN /\ qdIdx' = qdIdx + 1
            /\ dpc' = "qd_loop"
            /\ UNCHANGED qdResult
       ELSE /\ qdResult' = "False"
            /\ dpc' = "qd_ret"
            /\ UNCHANGED qdIdx
    /\ UNCHANGED <<fvars, choice, failMsgs, cfgMsgs, pyOk, dotenvOk, dirs, blocked,
                   installRuns, child, srvCalls, interrupted, exitStatus>>
    /\ UNCHANGED <<pvars, ovars>>

\* quick_deploy, lines 267-268: the loop is exhausted
QdFinish ==
    /\ dpc = "qd_loop"
    /\ qdIdx > Len(steps)
    /\ qdResult' = "True"
    /\ dpc' = "qd_ret"
    /\ UNCHANGED <<fvars, choice, qdIdx, qdLog, failMsgs, cfgMsgs, pyOk, depsOk,
                   dotenvOk, dirs, blocked, installRuns, child, srvCalls, interrupted,
                   exitStatus>>
    /\ UNCHANGED <<pvars, ovars>>

\* main, lines 280-282: start the service only if quick_deploy returned True
AfterQuickDeploy ==
    /\ dpc = "qd_ret"
    /\ IF qdResult = "True"
       THEN /\ dpc' = "srv_start"
            /\ srvCalls' = srvCalls + 1
            /\ UNCHANGED exitStatus
       ELSE /\ dpc' = "exited"
            /\ exitStatus' = "0"
            /\ UNCHANGED srvCalls
    /\ UNCHANGED <<fvars, choice, qdIdx, qdLog, qdResult, failMsgs, cfgMsgs, pyOk,
                   depsOk, dotenvOk, dirs, blocked, installRuns, child, interrupted>>
    /\ UNCHANGED <<pvars, ovars>>

\* start_server, lines 163-169: Popen; a failure to spawn is caught (False)
SrvPopen(ok) ==
    /\ dpc = "srv_start"
    /\ IF ok THEN child' = "running" /\ dpc' = "srv_sleep"
             ELSE child' = child /\ dpc' = "srv_ret"
    /\ UNCHANGED <<fvars, choice, qdIdx, qdLog, qdResult, failMsgs, cfgMsgs, pyOk,
                   depsOk, dotenvOk, dirs, blocked, installRuns, srvCalls,
                   interrupted, exitStatus>>
    /\ UNCHANGED <<pvars, ovars>>

\* start_server, line 172: time.sleep(3) returns
SrvSleepDone ==
    /\ dpc = "srv_sleep"
    /\ dpc' = "srv_browser"
    /\ UNCHANGED <<fvars, choice, qdIdx, qdLog, qdResult, failMsgs, cfgMsgs, pyOk,
                   depsOk, dotenvOk, dirs, blocked, installRuns, child, srvCalls,
                   interrupted, exitStatus>>
    /\ UNCHANGED <<pvars, ovars>>

\* start_server, lines 178-182: webbrowser.open; an Exception is a warning
SrvBrowser(ok) ==
    /\ dpc = "srv_browser"
    /\ ok \in BOOLEAN
    /\ dpc' = "srv_wait"
    /\ UNCHANGED <<fvars, choice, qdIdx, qdLog, qdResult, failMsgs, cfgMsgs, pyOk,
                   depsOk, dotenvOk, dirs, blocked, installRuns, child, srvCalls,
                   interrupted, exitStatus>>
    /\ UNCHANGED <<pvars, ovars>>

\* start_server, lines 185-186 and 190: process.wait() returns once the
\* child has exited
SrvWaitReturn ==
    /\ dpc \in {"srv_wait", "srv_wait2"}
    /\ child = "exited"
    /\ dpc' = "srv_ret"
    /\ UNCHANGED <<fvars, choice, qdIdx, qdLog, qdResult, failMsgs, cfgMsgs, pyOk,
                   depsOk, dotenvOk, dirs, blocked, installRuns, child, srvCalls,
                   interrupted, exitStatus>>
    /\ UNCHANGED <<pvars, ovars>>

\* start_server, lines 187-188: KeyboardInterrupt inside the guarded wait
SrvWaitInterrupted ==
    /\ dpc = "srv_wait"
    /\ interrupted' = TRUE
    /\ dpc' = "srv_term"
    /\ UNCHANGED <<fvars, choice, qdIdx, qdLog, qdResult, failMsgs, cfgMsgs, pyOk,
                   depsOk, dotenvOk, dirs, blocked, installRuns, child, srvCalls,
                   exitStatus>>
    /\ UNCHANGED <<pvars, ovars>>

\* start_server, line 189: process.terminate()
SrvTerminate ==
    /\ dpc = "srv_term"
    /\ child' = IF child = "running" THEN "terminating" ELSE child
    /\ dpc' = "srv_wait2"
    /\ UNCHANGED <<fvars, choice, qdIdx, qdLog, qdResult, failMsgs, cfgMsgs, pyOk,
                   depsOk, dotenvOk, dirs, blocked, installRuns, srvCalls,
                   interrupted, exitStatus>>
    /\ UNCHANGED <<pvars, ovars>>

\* main, lines 282 and 295: start_server returned, break, main returns
SrvReturn ==
    /\ dpc = "srv_ret"
    /\ dpc' = "exited"
    /\ exitStatus' = "0"
    /\ UNCHANGED <<fvars, choice, qdIdx, qdLog, qdResult, failMsgs, cfgMsgs, pyOk,
                   depsOk, dotenvOk, dirs, blocked, installRuns, child, srvCalls,
                   interrupted>>
    /\ UNCHANGED <<pvars, ovars>>

\* the service process ends (by itself, or after the terminate request)
ChildExit ==
    /\ child \in {"running", "terminating"}
    /\ child' = "exited"
    /\ UNCHANGED <<fvars, dpc, choice, qdIdx, qdLog, qdResult, failMsgs, cfgMsgs,
                   pyOk, depsOk, dotenvOk, dirs, blocked, installRuns, srvCalls,
                   interrupted, exitStatus>>
    /\ UNCHANGED <<pvars, ovars>>

\* a main whose KeyboardInterrupt handler exits with status 1
InterruptNonZero ==
    /\ dpc \notin {"idle", "srv_wait", "exited"}
    /\ interrupted' = TRUE
    /\ dpc' = "exited"
    /\ exitStatus' = "1"
    /\ UNCHANGED <<fvars, choice, qdIdx, qdLog, qdResult, failMsgs, cfgMsgs, pyOk,
                   depsOk, dotenvOk, dirs, blocked, installRuns, child, srvCalls>>
    /\ UNCHANGED <<pvars, ovars>>

\* main, lines 306-308: a KeyboardInterrupt anywhere else in the try block is
\* caught by no handler below main (except Exception does not catch it)
Interrupt ==
    /\ dpc \notin {"idle", "srv_wait", "exited"}
    /\ interrupted' = TRUE
    /\ dpc' = "exited"
    /\ exitStatus' = "0"
    /\ UNCHANGED <<fvars, choice, qdIdx, qdLog, qdResult, failMsgs, cfgMsgs, pyOk,
                   depsOk, dotenvOk, dirs, blocked, installRuns, child, srvCalls>>
    /\ UNCHANGED <<pvars, ovars>>

-----------------------------------------------------------------------------
(* setup_api_keys.py *)

\* bound on the verification calls per service of one run
MaxAttempts == 2
\* bound on the manual edits of .env made while the provisioner runs
MaxEdits == 1

\* get_user_input asks again (required field left empty)
AskAgain == <<"<again>">>

\* get_user_input(prompt, default, required): one pass of its loop over the
\* line typed
get_user_input(raw, default, required) ==
    LET typed == Strip(raw)
        user_input == IF default # Empty /\ typed = Empty THEN default ELSE typed
    IN  IF user_input # Empty \/ ~required THEN user_input ELSE AskAgain

\* test_openai_api that lets a timeout escape
test_openai_apiUncaught(outcome) ==
    CASE outcome = "200" -> "True"
      [] outcome = "401" -> "False"
      [] outcome = "connection_error" -> "False"
      [] OTHER -> "raised"

\* test_openai_api(api_key): 200 is True, another status is False, a
\* requests.RequestException (timeout, connection failure) is False; any
\* other exception is not caught
OpenaiOutcomes == {"200", "401", "timeout", "connection_error", "other_exception"}
test_openai_api(outcome) ==
    CASE outcome = "200" -> "True"
      [] outcome = "401" -> "False"
      [] outcome \in {"timeout", "connection_error"} -> "False"
      [] OTHER -> "raised"

\* test_tencent_api(secret_id, secret_key): constructing the client is True,
\* any Exception (the import included) is False
TencentOutcomes == {"constructed", "import_error", "sdk_exception"}
test_tencent_api(outcome) == IF outcome = "constructed" THEN "True" ELSE "False"

\* a format check that only looks at the first character
FormatOkFirstChar(api_key) == StartsWith(api_key, <<"s">>)

\* configure_openai, line 105: api_key.startswith('sk-')
FormatOk(api_key) == StartsWith(api_key, SK)

\* configure_openai line 97, configure_tencent line 128: a value is there
\* and is not the placeholder
Existing(current, placeholder) == current # Empty /\ ~StartsWith(current, placeholder)

\* dotenv.set_key(path, k, v): every line of the file that sets k is
\* rewritten in place, a new key is appended, no other line is touched
SetKey(file, k, v) ==
    IF \E i \in 1..Len(file) : file[i][1] = k
    THEN [i \in 1..Len(file) |-> IF file[i][1] = k THEN <<k, v>> ELSE file[i]]
    ELSE Append(file, <<k, v>>)

\* a lookup that hands an unknown choice on as it was typed
service_mapPassThrough(c) ==
    CASE c = <<"1">> -> OPENAI [] c = <<"2">> -> XUNFEI [] c = <<"3">> -> TENCENT
      [] OTHER -> c

\* configure_optional_settings: service_map.get(choice, "openai")
service_map(c) ==
    CASE c = <<"1">> -> OPENAI [] c = <<"2">> -> XUNFEI [] c = <<"3">> -> TENCENT
      [] OTHER -> OPENAI

\* configure_optional_settings: video_service_map.get(choice, "tencent")
video_service_map(c) ==
    CASE c = <<"1">> -> TENCENT [] c = <<"2">> -> LOCALSVC [] OTHER -> TENCENT

TencentAliases == <<"TENCENT_SECRET_ID", "TENCENT_SECRET_KEY",
                    "TENCENT_ASR_SECRET_ID", "TENCENT_ASR_SECRET_KEY",
                    "TENCENT_TMT_SECRET_ID", "TENCENT_TMT_SECRET_KEY">>

\* save_configuration, lines 189-202: the set_key calls it makes, in order
WriteList(okey, tid, tkey, opts) ==
    (IF Truthy(okey) THEN << <<"OPENAI_API_KEY", okey>> >> ELSE <<>>)
    \o (IF Truthy(tid) /\ Truthy(tkey)
        THEN << <<"TENCENT_SECRET_ID", tid>>, <<"TENCENT_SECRET_KEY", tkey>>,
                <<"TENCENT_ASR_SECRET_ID", tid>>, <<"TENCENT_ASR_SECRET_KEY", tkey>>,
                <<"TENCENT_TMT_SECRET_ID", tid>>, <<"TENCENT_TMT_SECRET_KEY", tkey>> >>
        ELSE <<>>)
    \o opts

\* copies .env.example over .env whether or not .env exists
EnsureEnvFileAlways ==
    IF exampleExists THEN [exists |-> TRUE, file |-> FileExample]
    ELSE [exists |-> envExists, file |-> envFile]

\* save_configuration, lines 180-186: a missing .env is copied from .env.example
EnsureEnvFile ==
    IF ~envExists /\ exampleExists THEN [exists |-> TRUE, file |-> FileExample]
    ELSE [exists |-> envExists, file |-> envFile]

\* lines typed at the prompts
YesNoInputs == {<<>>, <<"y">>, <<"Y">>, <<"n">>, <<" ", "y", " ">>, <<"y", "e", "s">>}
KeyInputs == {<<>>, <<" ", "s", "k", "-", "A", " ">>, OA2, <<"A">>, <<"s">>}
IdInputs == {<<>>, <<" ">>, TID2}
SecretInputs == {<<>>, TKEY2}
OptionInputs == {<<>>, <<"1">>, <<"2">>, <<"3">>, <<"4">>, <<"x">>}

\* standard input: a terminal (input() waits for the user), or a pipe
\* holding the lines not read yet
Tty == [tty |-> TRUE, lines |-> <<>>]
Piped(lines) == [tty |-> FALSE, lines |-> lines]

NoTest == [arg |-> Empty, outcome |-> "none", result |-> "none"]

InitProvState ==
    /\ pExit = "running"
    /\ pInterrupted = FALSE
    /\ apiKeyIn = Empty
    /\ secIdIn = Empty
    /\ secKeyIn = Empty
    /\ openai_key = Unset
    /\ tencent_id = Unset
    /\ tencent_key = Unset
    /\ optSettings = <<>>
    /\ kept = [openai |-> FALSE, tencent |-> FALSE]
    /\ testCalls = [openai |-> 0, tencent |-> 0]
    /\ lastTest = [openai |-> NoTest, tencent |-> NoTest]
    /\ saveList = <<>>
    /\ written = <<>>
    /\ lastWrite = [key |-> "", value |-> Empty, before |-> <<>>]
    /\ storeBefore = <<>>
    /\ edits = 0
    /\ lastEdit = [key |-> "", value |-> Empty]

\* run from a terminal
InitProvProc == InitProvState /\ stdin = Tty

InitProvEnv ==
    /\ envExists \in BOOLEAN
    /\ envFile \in (IF envExists THEN {FileReal, FilePlaceholder, FileOther, FileAliased}
                    ELSE {<<>>})
    /\ exampleExists \in BOOLEAN
    /\ environ = EmptyEnviron

pin == <<apiKeyIn, secIdIn, secKeyIn>>
psave == <<saveList, written, lastWrite, storeBefore>>
pedit == <<edits, lastEdit>>
pstore == <<envExists, envFile, exampleExists>>

\* get_user_input, lines 29 and 33: input() returns the line typed at the
\* terminal, or the next line of the pipe
Reads(raw) ==
    IF stdin.tty THEN UNCHANGED stdin
    ELSE /\ stdin.lines # <<>>
         /\ raw = Head(stdin.lines)
         /\ stdin' = Piped(Tail(stdin.lines))

\* main, line 211: load_dotenv()
PLoad ==
    /\ UNCHANGED stdin
    /\ ppc = "start"
    /\ environ' = LoadDotenv(environ, envExists, envFile)
    /\ ppc' = "oa_begin"
    /\ UNCHANGED <<dvars, ovars, pstore, pExit, pInterrupted, pin, openai_key, tencent_id,
                   tencent_key, optSettings, kept, testCalls, lastTest, psave, pedit>>

\* configure_openai, lines 96-98: is there an existing key to offer
OaBegin ==
    /\ UNCHANGED stdin
    /\ ppc = "oa_begin"
    /\ ppc' = IF Existing(Getenv(environ, "OPENAI_API_KEY", Empty), SKYOUR)
              THEN "oa_keep" ELSE "oa_entry"
    /\ UNCHANGED <<dvars, ovars, pstore, environ, pExit, pInterrupted, pin, openai_key,
                   tencent_id, tencent_key, optSettings, kept, testCalls, lastTest,
                   psave, pedit>>

\* the keep branch that verifies the kept key as if it were new
OaKeepVerifying(raw) ==
    /\ Reads(raw)
    /\ ppc = "oa_keep"
    /\ IF Lower(get_user_input(raw, Y, TRUE)) = Y
       THEN /\ apiKeyIn' = Getenv(environ, "OPENAI_API_KEY", Empty)
            /\ kept' = [kept EXCEPT !.openai = TRUE]
            /\ ppc' = "oa_test"
       ELSE /\ ppc' = "oa_entry"
            /\ UNCHANGED <<apiKeyIn, kept>>
    /\ UNCHANGED <<dvars, ovars, pstore, environ, pExit, pInterrupted, secIdIn, secKeyIn,
                   openai_key, tencent_id, tencent_key, optSettings, testCalls,
                   lastTest, psave, pedit>>

\* configure_openai, lines 99-100: keep the current key?
OaKeep(raw) ==
    /\ Reads(raw)
    /\ ppc = "oa_keep"
    /\ IF Lower(get_user_input(raw, Y, TRUE)) = Y
       THEN /\ openai_key' = Getenv(environ, "OPENAI_API_KEY", Empty)
            /\ kept' = [kept EXCEPT !.openai = TRUE]
            /\ ppc' = "tc_begin"
       ELSE /\ ppc' = "oa_entry"
            /\ UNCHANGED <<openai_key, kept>>
    /\ UNCHANGED <<dvars, ovars, pstore, environ, pExit, pInterrupted, pin, tencent_id,
                   tencent_key, optSettings, testCalls, lastTest, psave, pedit>>

\* configure_openai, lines 103-107: a key is typed and its format checked
OaEntry(raw) ==
    /\ Reads(raw)
    /\ ppc = "oa_entry"
    /\ LET api_key == get_user_input(raw, Empty, TRUE)
       IN  /\ api_key # AskAgain
           /\ apiKeyIn' = api_key
           /\ ppc' = IF FormatOk(api_key) THEN "oa_test" ELSE "oa_entry"
    /\ UNCHANGED <<dvars, ovars, pstore, environ, pExit, pInterrupted, secIdIn, secKeyIn,
                   openai_key, tencent_id, tencent_key, optSettings, kept, testCalls,
                   lastTest, psave, pedit>>

\* configure_openai, lines 109-110: the verification call and its result
OaTest(outcome) ==
    /\ UNCHANGED stdin
    /\ ppc = "oa_test"
    /\ testCalls.openai < MaxAttempts
    /\ testCalls' = [testCalls EXCEPT !.openai = @ + 1]
    /\ lastTest' = [lastTest EXCEPT !.openai =
                       [arg |-> apiKeyIn, outcome |-> outcome,
                        result |-> test_openai_api(outcome)]]
    /\ CASE test_openai_api(outcome) = "True" ->
              /\ openai_key' = apiKeyIn
              /\ ppc' = "tc_begin"
              /\ UNCHANGED pExit
         [] test_openai_api(outcome) = "False" ->
              /\ ppc' = "oa_retry"
              /\ UNCHANGED <<openai_key, pExit>>
         [] OTHER ->  \* the exception reaches main's except Exception
              /\ ppc' = "exited"
              /\ pExit' = "1"
              /\ UNCHANGED openai_key
    /\ UNCHANGED <<dvars, ovars, pstore, environ, pInterrupted, pin, tencent_id, tencent_key,
                   optSettings, kept, psave, pedit>>

\* the retry prompt of a loop that gives up after the first failed attempt
OaRetryLimited(raw) ==
    /\ Reads(raw)
    /\ ppc = "oa_retry"
    /\ IF Lower(get_user_input(raw, Y, TRUE)) # Y \/ testCalls.openai >= 1
       THEN openai_key' = None /\ ppc' = "tc_begin"
       ELSE openai_key' = openai_key /\ ppc' = "oa_entry"
    /\ UNCHANGED <<dvars, ovars, pstore, environ, pExit, pInterrupted, pin, tencent_id,
                   tencent_key, optSettings, kept, testCalls, lastTest, psave, pedit>>

\* configure_openai, lines 112-114: enter again, or skip the service
OaRetry(raw) ==
    /\ Reads(raw)
    /\ ppc = "oa_retry"
    /\ IF Lower(get_user_input(raw, Y, TRUE)) # Y
       THEN openai_key' = None /\ ppc' = "tc_begin"
       ELSE openai_key' = openai_key /\ ppc' = "oa_entry"
    /\ UNCHANGED <<dvars, ovars, pstore, environ, pExit, pInterrupted, pin, tencent_id,
                   tencent_key, optSettings, kept, testCalls, lastTest, psave, pedit>>

\* configure_tencent, lines 125-129
TcBegin ==
    /\ UNCHANGED stdin
    /\ ppc = "tc_begin"
    /\ ppc' = IF Existing(Getenv(environ, "TENCENT_SECRET_ID", Empty), YOUR)
              THEN "tc_keep" ELSE "tc_entry_id"
    /\ UNCHANGED <<dvars, ovars, pstore, environ, pExit, pInterrupted, pin, openai_key,
                   tencent_id, tencent_key, optSettings, kept, testCalls, lastTest,
                   psave, pedit>>

\* configure_tencent, lines 130-131
TcKeep(raw) ==
    /\ Reads(raw)
    /\ ppc = "tc_keep"
    /\ IF Lower(get_user_input(raw, Y, TRUE)) = Y
       THEN /\ tencent_id' = Getenv(environ, "TENCENT_SECRET_ID", Empty)
            /\ tencent_key' = Getenv(environ, "TENCENT_SECRET_KEY", Empty)
            /\ kept' = [kept EXCEPT !.tencent = TRUE]
            /\ ppc' = "opt_speech"
       ELSE /\ ppc' = "tc_entry_id"
            /\ UNCHANGED <<tencent_id, tencent_key, kept>>
    /\ UNCHANGED <<dvars, ovars, pstore, environ, pExit, pInterrupted, pin, openai_key,
                   optSettings, testCalls, lastTest, psave, pedit>>

\* configure_tencent, line 134
TcEntryId(raw) ==
    /\ Reads(raw)
    /\ ppc = "tc_entry_id"
    /\ get_user_input(raw, Empty, TRUE) # AskAgain
    /\ secIdIn' = get_user_input(raw, Empty, TRUE)
    /\ ppc' = "tc_entry_key"
    /\ UNCHANGED <<dvars, ovars, pstore, environ, pExit, pInterrupted, apiKeyIn, secKeyIn,
                   openai_key, tencent_id, tencent_key, optSettings, kept, testCalls,
                   lastTest, psave, pedit>>

\* configure_tencent, line 135
TcEntryKey(raw) ==
    /\ Reads(raw)
    /\ ppc = "tc_entry_key"
    /\ get_user_input(raw, Empty, TRUE) # AskAgain
    /\ secKeyIn' = get_user_input(raw, Empty, TRUE)
    /\ ppc' = "tc_test"
    /\ UNCHANGED <<dvars, ovars, pstore, environ, pExit, pInterrupted, apiKeyIn, secIdIn,
                   openai_key, tencent_id, tencent_key, optSettings, kept, testCalls,
                   lastTest, psave, pedit>>

\* configure_tencent, lines 137-138
TcTest(outcome) ==
    /\ UNCHANGED stdin
    /\ ppc = "tc_test"
    /\ testCalls.tencent < MaxAttempts
    /\ testCalls' = [testCalls EXCEPT !.tencent = @ + 1]
    /\ lastTest' = [lastTest EXCEPT !.tencent =
                       [arg |-> secIdIn \o secKeyIn, outcome |-> outcome,
                        result |-> test_tencent_api(outcome)]]
    /\ IF test_tencent_api(outcome) = "True"
       THEN /\ tencent_id' = secIdIn
            /\ tencent_key' = secKeyIn
            /\ ppc' = "opt_speech"
       ELSE /\ ppc' = "tc_retry"
            /\ UNCHANGED <<tencent_id, tencent_key>>
    /\ UNCHANGED <<dvars, ovars, pstore, environ, pExit, pInterrupted, pin, openai_key,
                   optSettings, kept, psave, pedit>>

\* a skip that returns the pair that has just failed verification
TcRetryKeeping(raw) ==
    /\ Reads(raw)
    /\ ppc = "tc_retry"
    /\ IF Lower(get_user_input(raw, Y, TRUE)) # Y
       THEN tencent_id' = secIdIn /\ tencent_key' = secKeyIn /\ ppc' = "opt_speech"
       ELSE UNCHANGED <<tencent_id, tencent_key>> /\ ppc' = "tc_entry_id"
    /\ UNCHANGED <<dvars, ovars, pstore, environ, pExit, pInterrupted, pin, openai_key,
                   optSettings, kept, testCalls, lastTest, psave, pedit>>

\* configure_tencent, lines 140-142
TcRetry(raw) ==
    /\ Reads(raw)
    /\ ppc = "tc_retry"
    /\ IF Lower(get_user_input(raw, Y, TRUE)) # Y
       THEN tencent_id' = None /\ tencent_key' = None /\ ppc' = "opt_speech"
       ELSE UNCHANGED <<tencent_id, tencent_key>> /\ ppc' = "tc_entry_id"
    /\ UNCHANGED <<dvars, ovars, pstore, environ, pExit, pInterrupted, pin, openai_key,
                   optSettings, kept, testCalls, lastTest, psave, pedit>>

\* configure_optional_settings, lines 158-160
OptSpeech(raw) ==
    /\ Reads(raw)
    /\ ppc = "opt_speech"
    /\ optSettings' = << <<"SPEECH_SERVICE", service_map(get_user_input(raw, ONE, FALSE))>> >>
    /\ ppc' = "opt_video"
    /\ UNCHANGED <<dvars, ovars, pstore, environ, pExit, pInterrupted, pin, openai_key,
                   tencent_id, tencent_key, kept, testCalls, lastTest, psave, pedit>>

\* configure_optional_settings, lines 167-171
OptVideo(raw) ==
    /\ Reads(raw)
    /\ ppc = "opt_video"
    /\ optSettings' = Append(optSettings,
                        <<"VIDEO_SERVICE", video_service_map(get_user_input(raw, ONE, FALSE))>>)
    /\ ppc' = "save_begin"
    /\ UNCHANGED <<dvars, ovars, pstore, environ, pExit, pInterrupted, pin, openai_key,
                   tencent_id, tencent_key, kept, testCalls, lastTest, psave, pedit>>

\* save_configuration, lines 177-186: make sure .env is there
SaveBegin ==
    /\ UNCHANGED stdin
    /\ ppc = "save_begin"
    /\ envExists' = EnsureEnvFile.exists
    /\ envFile' = EnsureEnvFile.file
    /\ storeBefore' = IF envExists THEN envFile ELSE EnsureEnvFile.file
    /\ saveList' = WriteList(openai_key, tencent_id, tencent_key, optSettings)
    /\ written' = WriteList(openai_key, tencent_id, tencent_key, optSettings)
    /\ ppc' = "save"
    /\ UNCHANGED <<dvars, ovars, exampleExists, environ, pExit, pInterrupted, pin, openai_key,
                   tencent_id, tencent_key, optSettings, kept, testCalls, lastTest,
                   lastWrite, pedit>>

\* save_configuration, lines 189-202: the next set_key call (it creates
\* the file when there is none)
SaveWrite ==
    /\ UNCHANGED stdin
    /\ ppc = "save"
    /\ saveList # <<>>
    /\ envFile' = SetKey(envFile, Head(saveList)[1], Head(saveList)[2])
    /\ envExists' = TRUE
    /\ lastWrite' = [key |-> Head(saveList)[1], value |-> Head(saveList)[2],
                     before |-> envFile]
    /\ saveList' = Tail(saveList)
    /\ UNCHANGED <<dvars, ovars, exampleExists, environ, ppc, pExit, pInterrupted, pin,
                   openai_key, tencent_id, tencent_key, optSettings, kept, testCalls,
                   lastTest, written, storeBefore, pedit>>

\* save_configuration: a set_key call raises (the file cannot be written);
\* main's except Exception exits with 1
SaveWriteFails ==
    /\ UNCHANGED stdin
    /\ ppc = "save"
    /\ saveList # <<>>
    /\ ppc' = "exited"
    /\ pExit' = "1"
    /\ UNCHANGED <<dvars, ovars, pstore, environ, pInterrupted, pin, openai_key, tencent_id,
                   tencent_key, optSettings, kept, testCalls, lastTest, psave, pedit>>

\* save_configuration returns, main prints and returns (lines 204, 233-239)
SaveDone ==
    /\ UNCHANGED stdin
    /\ ppc = "save"
    /\ saveList = <<>>
    /\ ppc' = "done"
    /\ pExit' = "0"
    /\ UNCHANGED <<dvars, ovars, pstore, environ, pInterrupted, pin, openai_key, tencent_id,
                   tencent_key, optSettings, kept, testCalls, lastTest, psave, pedit>>

\* main, lines 241-243: KeyboardInterrupt anywhere in the try block
PInterrupt ==
    /\ UNCHANGED stdin
    /\ ppc \notin {"idle", "start", "done", "exited"}
    /\ pInterrupted' = TRUE
    /\ ppc' = "exited"
    /\ pExit' = "0"
    /\ UNCHANGED <<dvars, ovars, pstore, environ, pin, openai_key, tencent_id, tencent_key,
                   optSettings, kept, testCalls, lastTest, psave, pedit>>

PromptStates == {"oa_keep", "oa_entry", "oa_retry", "tc_keep", "tc_entry_id",
                 "tc_entry_key", "tc_retry", "opt_speech", "opt_video"}

\* get_user_input, lines 29 and 33: input() at the end of the pipe raises
\* EOFError, which main's except Exception turns into exit status 1
PromptEof ==
    /\ ppc \in PromptStates
    /\ ~stdin.tty /\ stdin.lines = <<>>
    /\ ppc' = "exited"
    /\ pExit' = "1"
    /\ UNCHANGED <<dvars, ovars, pstore, stdin, environ, pInterrupted, pin, openai_key,
                   tencent_id, tencent_key, optSettings, kept, testCalls, lastTest,
                   psave, pedit>>

\* somebody edits .env by hand after the provisioner loaded it and before it saves
ManualEdit(k, v) ==
    /\ UNCHANGED stdin
    /\ ppc \notin {"idle", "start", "save", "done", "exited"}
    /\ envExists
    /\ edits < MaxEdits
    /\ Lookup(envFile, k) # v
    /\ envFile' = SetKey(envFile, k, v)
    /\ edits' = edits + 1
    /\ lastEdit' = [key |-> k, value |-> v]
    /\ UNCHANGED <<dvars, ovars, envExists, exampleExists, environ, ppc, pExit, pInterrupted,
                   pin, openai_key, tencent_id, tencent_key, optSettings, kept,
                   testCalls, lastTest, psave>>

-----------------------------------------------------------------------------
(* quick_start.py *)

\* the variables of the other programs that quick_start.py never writes
qframe == <<dnodirs, pvars, pyMinor, ivars, tvars, rvars>>

\* what pip may find listed in requirements.txt, as import names
Requirements == {"fastapi", "uvicorn", "cv2"}
Installable == {Requirements, {"fastapi", "uvicorn"}}

\* check_python_version, lines 28-36
qs_check_python_version == pyMinor >= 9

\* check_dependencies, lines 42-44: the modules the try block imports
qs_imports == <<"fastapi", "uvicorn", "opencv_python">>

\* check_dependencies, lines 41-47: do all imports succeed
qs_imports_ok(mods) == \A i \in 1..Len(qs_imports) : qs_imports[i] \in mods

\* create_directories, lines 124-126
qs_directories == <<"uploads", "outputs", "temp", "logs">>

RECURSIVE qs_mkdir_all(_, _)
qs_mkdir_all(i, have) ==
    IF i > Len(qs_directories) THEN [res |-> "done", dirs |-> have]
    ELSE IF qs_directories[i] \in blocked THEN [res |-> "raise", dirs |-> have]
    ELSE qs_mkdir_all(i + 1, have \cup {qs_directories[i]})

\* test_api_keys, lines 104-118, on the environment after load_dotenv()
qs_test_api_keys(env) ==
    LET okey == env["OPENAI_API_KEY"]
        tid  == env["TENCENT_SECRET_ID"]
    IN  IF okey = Unset \/ okey = Empty \/ StartsWith(okey, SKYOUR) THEN FALSE
        ELSE IF tid = Unset \/ tid = Empty \/ StartsWith(tid, YOUR) THEN FALSE
        ELSE TRUE

\* test_api_keys, lines 109-117: the line printed
qs_test_api_keys_line(env) ==
    LET okey == env["OPENAI_API_KEY"]
        tid  == env["TENCENT_SECRET_ID"]
    IN  IF okey = Unset \/ okey = Empty \/ StartsWith(okey, SKYOUR)
        THEN "openai_unconfigured"
        ELSE IF tid = Unset \/ tid = Empty \/ StartsWith(tid, YOUR)
        THEN "tencent_unconfigured"
        ELSE "keys_configured"

PipOutcomes == {"rc0", "rc_nonzero", "exception"}
FfmpegOutcomes == {"rc0", "rc_nonzero", "timeout", "not_found"}
PyMinors == {7, 8, 9, 10}

InitQuickProc ==
    /\ qpc = "check_python_version"
    /\ qExit = "running"
    /\ qPip = 0
    /\ qOut = <<>>
    /\ qChild = "none"

InitQuickIdle ==
    /\ qpc = "idle" /\ qExit = "running" /\ qPip = 0 /\ qOut = <<>>
    /\ qChild = "none"

InitQuickEnv ==
    /\ pyMinor \in PyMinors
    /\ modules \in SUBSET Requirements
    /\ envExists \in BOOLEAN
    /\ envFile \in (IF envExists THEN {FileReal, FilePlaceholder, FileOther} ELSE {<<>>})
    /\ exampleExists \in BOOLEAN
    /\ environ = EmptyEnviron
    /\ dirs \in {{}, {"temp", "logs"}}
    /\ blocked \in {{}, {"uploads"}}

\* __main__, lines 178-180: main returned False
QsFail(tag) ==
    /\ qOut' = Append(qOut, tag)
    /\ qpc' = "exited"
    /\ qExit' = "1"

\* main, lines 152-153
QsCheckPythonVersion ==
    /\ qpc = "check_python_version"
    /\ IF qs_check_python_version
       THEN qpc' = "check_dependencies" /\ UNCHANGED <<qExit, qOut>>
       ELSE QsFail("python_too_old")
    /\ UNCHANGED <<qframe, fvars, dirs, modules, qPip, qChild>>

\* check_dependencies, lines 41-51: the imports, and pip started when one fails
QsCheckDependencies ==
    /\ qpc = "check_dependencies"
    /\ IF qs_imports_ok(modules)
       THEN /\ qpc' = "check_ffmpeg"
            /\ qOut' = Append(qOut, "deps_installed")
            /\ UNCHANGED qPip
       ELSE /\ qpc' = "pip"
            /\ qOut' = Append(qOut, "deps_missing")
            /\ qPip' = qPip + 1
    /\ UNCHANGED <<qframe, fvars, dirs, modules, qExit, qChild>>

\* check_dependencies, lines 51-56, and main, lines 155-156: pip returns
QsPipReturn(outcome, got) ==
    /\ qpc = "pip"
    /\ CASE outcome = "rc0" ->
              /\ modules' = modules \cup got
              /\ qOut' = Append(qOut, "install_done")
              /\ qpc' = "check_ffmpeg"
              /\ UNCHANGED qExit
         [] outcome = "rc_nonzero" ->  \* CalledProcessError
              /\ QsFail("install_failed")
              /\ UNCHANGED modules
         [] OTHER ->  \* not a CalledProcessError: nothing catches it
              /\ QsFail("traceback")
              /\ UNCHANGED modules
    /\ UNCHANGED <<qframe, fvars, dirs, qPip, qChild>>

\* check_ffmpeg, lines 58-72, and main, lines 158-159: a warning at most
QsCheckFfmpeg(outcome) ==
    /\ qpc = "check_ffmpeg"
    /\ qOut' = IF outcome = "rc0" THEN qOut ELSE Append(qOut, "ffmpeg_missing")
    /\ qpc' = "setup_env_file"
    /\ UNCHANGED <<qframe, fvars, dirs, modules, qExit, qPip, qChild>>

\* setup_env_file, lines 78-99, and main, lines 162-163
QsSetupEnvFile ==
    /\ qpc = "setup_env_file"
    /\ CASE envExists ->
              /\ environ' = LoadDotenv(environ, envExists, envFile)
              /\ qpc' = "create_directories"
              /\ UNCHANGED <<envExists, envFile, qExit, qOut>>
         [] ~envExists /\ exampleExists ->
              /\ envExists' = TRUE
              /\ envFile' = FileExample
              /\ qpc' = "create_directories"
              /\ UNCHANGED <<environ, qExit, qOut>>
         [] OTHER ->
              /\ QsFail("no_env_example")
              /\ UNCHANGED fvars
    /\ UNCHANGED <<qframe, dirs, modules, qPip, qChild>>

\* create_directories, lines 120-128, called at main line 165
QsCreateDirectories ==
    /\ qpc = "create_directories"
    /\ dirs' = qs_mkdir_all(1, dirs).dirs
    /\ IF qs_mkdir_all(1, dirs).res = "done"
       THEN qpc' = "test_api_keys" /\ UNCHANGED <<qExit, qOut>>
       ELSE QsFail("traceback")
    /\ UNCHANGED <<qframe, fvars, modules, qPip, qChild>>

\* test_api_keys, lines 101-118, and main, lines 168-171
QsTestApiKeys ==
    /\ qpc = "test_api_keys"
    /\ environ' = LoadDotenv(environ, envExists, envFile)
    /\ IF qs_test_api_keys(environ')
       THEN /\ qpc' = "start_server"
            /\ qOut' = Append(qOut, qs_test_api_keys_line(environ'))
            /\ UNCHANGED qExit
       ELSE /\ qOut' = qOut \o <<qs_test_api_keys_line(environ'),
                                 "keys_not_configured">>
            /\ qpc' = "exited"
            /\ qExit' = "1"
    /\ UNCHANGED <<qframe, envExists, envFile, dirs, modules, qPip, qChild>>

\* start_server, lines 136-143: subprocess.run starts uvicorn and waits
QsStartServer ==
    /\ qpc = "start_server"
    /\ qChild' = "running"
    /\ qpc' = "serving"
    /\ UNCHANGED <<qframe, fvars, dirs, modules, qExit, qPip, qOut>>

\* the service ends by itself: subprocess.run returns, main returns True
QsServerExit ==
    /\ qpc = "serving"
    /\ qChild' = "exited"
    /\ qpc' = "exited"
    /\ qExit' = "0"
    /\ UNCHANGED <<qframe, fvars, dirs, modules, qPip, qOut>>

\* KeyboardInterrupt: caught only inside start_server (lines 144-145), where
\* subprocess.run has killed the child; anywhere else nothing catches it
QsInterrupt ==
    /\ qpc \notin {"idle", "exited"}
    /\ qpc' = "exited"
    /\ IF qpc = "serving"
       THEN /\ qChild' = "killed"
            /\ qOut' = Append(qOut, "service_stopped")
            /\ qExit' = "0"
       ELSE /\ qExit' = "sigint"
            /\ UNCHANGED <<qChild, qOut>>
    /\ UNCHANGED <<qframe, fvars, dirs, modules, qPip>>

NextQuick ==
    \/ QsCheckPythonVersion
    \/ QsCheckDependencies
    \/ \E o \in PipOutcomes, got \in Installable : QsPipReturn(o, got)
    \/ \E o \in FfmpegOutcomes : QsCheckFfmpeg(o)
    \/ QsSetupEnvFile
    \/ QsCreateDirectories
    \/ QsTestApiKeys
    \/ QsStartServer
    \/ QsServerExit
    \/ QsInterrupt

-----------------------------------------------------------------------------
(* install_dependencies.py *)

\* the variables of the other programs that install_dependencies.py never writes
iframe == <<dvars, pvars, fvars, pyMinor, qvars, tvars, rvars>>

\* check_python_version, lines 26-37
inst_check_python_version == pyMinor >= 8

\* check_critical_packages, lines 130-142: (package, import name)
critical_packages ==
    << <<"fastapi", "fastapi">>, <<"uvicorn", "uvicorn">>,
       <<"opencv-python", "cv2">>, <<"Pillow", "PIL">>, <<"numpy", "numpy">>,
       <<"requests", "requests">>, <<"python-dotenv", "dotenv">>,
       <<"tencentcloud-sdk-python", "tencentcloud">>,
       <<"cos-python-sdk-v5", "qcloud_cos">>, <<"pydub", "pydub">>,
       <<"redis", "redis">> >>

\* check_package_installed, lines 60-69
check_package_installed(import_name, mods) == import_name \in mods

\* check_critical_packages, lines 144-153: the packages that are not importable
check_critical_packages(mods) ==
    SelectSeq(critical_packages,
              LAMBDA pk : ~check_package_installed(pk[2], mods))

CriticalImports == {critical_packages[i][2] : i \in 1..Len(critical_packages)}

\* install_requirements, lines 97-124: the value returned
install_requirements(exists, outcome) ==
    IF ~exists THEN FALSE ELSE outcome = "rc0"

InstPipOutcomes == {"rc0", "rc_nonzero", "timeout", "exception"}

InitInstProc ==
    /\ ipc = "check_python_version"
    /\ iExit = "running"
    /\ iPip = 0
    /\ iOut = <<>>

InitInstIdle ==
    /\ ipc = "idle" /\ iExit = "running" /\ iPip = 0 /\ iOut = <<>>
    /\ pipOk = TRUE /\ reqExists = TRUE

InitInstEnv ==
    /\ pyMinor \in PyMinors
    /\ modules \in (SUBSET Requirements) \cup {CriticalImports}
    /\ pipOk \in BOOLEAN
    /\ reqExists \in BOOLEAN

\* sys.exit(status) with a last message
InstExit(tag, status) ==
    /\ iOut' = Append(iOut, tag)
    /\ ipc' = "exited"
    /\ iExit' = status

\* main, lines 209-210
InstCheckPythonVersion ==
    /\ ipc = "check_python_version"
    /\ IF inst_check_python_version
       THEN ipc' = "check_pip" /\ UNCHANGED <<iExit, iOut>>
       ELSE InstExit("python_too_old", "1")
    /\ UNCHANGED <<iframe, modules, iPip, pipOk, reqExists>>

\* main, lines 212-220
InstCheckPip ==
    /\ ipc = "check_pip"
    /\ IF pipOk
       THEN ipc' = "upgrade_pip" /\ UNCHANGED <<iExit, iOut>>
       ELSE InstExit("install_pip_first", "1")
    /\ UNCHANGED <<iframe, modules, iPip, pipOk, reqExists>>

\* upgrade_pip, lines 176-193, called at main line 224: its result is ignored
InstUpgradePip(outcome) ==
    /\ ipc = "upgrade_pip"
    /\ iPip' = iPip + 1
    /\ iOut' = Append(iOut, IF outcome = "rc0" THEN "pip_upgraded"
                            ELSE "pip_upgrade_failed")
    /\ ipc' = "install_requirements"
    /\ UNCHANGED <<iframe, modules, iExit, pipOk, reqExists>>

\* install_requirements, lines 97-124, and main, lines 234-238
InstInstallRequirements(outcome, got) ==
    /\ ipc = "install_requirements"
    /\ iPip' = IF reqExists THEN iPip + 1 ELSE iPip
    /\ IF install_requirements(reqExists, outcome)
       THEN /\ modules' = modules \cup got
            /\ iOut' = Append(iOut, "install_done")
            /\ ipc' = "check_critical_packages"
            /\ UNCHANGED iExit
       ELSE /\ InstExit("install_failed", "1")
            /\ UNCHANGED modules
    /\ UNCHANGED <<iframe, pipOk, reqExists>>

\* main, lines 241-251: packages still missing are listed, the run succeeds
InstCheckCritical ==
    /\ ipc = "check_critical_packages"
    /\ IF check_critical_packages(modules) # <<>>
       THEN InstExit("packages_failed", "0")
       ELSE InstExit("install_complete", "0")
    /\ UNCHANGED <<iframe, modules, iPip, pipOk, reqExists>>

\* KeyboardInterrupt: caught by main's try (lines 222-255) only
InstInterrupt ==
    /\ ipc \notin {"idle", "exited"}
    /\ IF ipc \in {"check_python_version", "check_pip"}
       THEN /\ ipc' = "exited" /\ iExit' = "sigint" /\ UNCHANGED iOut
       ELSE InstExit("cancelled", "0")
    /\ UNCHANGED <<iframe, modules, iPip, pipOk, reqExists>>

NextInst ==
    \/ InstCheckPythonVersion
    \/ InstCheckPip
    \/ \E o \in InstPipOutcomes : InstUpgradePip(o)
    \/ \E o \in InstPipOutcomes, got \in Installable \cup {CriticalImports} :
          InstInstallRequirements(o, got)
    \/ InstCheckCritical
    \/ InstInterrupt

-----------------------------------------------------------------------------
(* test_system.py *)

\* the variables of the other programs that test_system.py never writes
tframe == <<dnodirs, pvars, envExists, envFile, evars, qvars, ivars, rvars>>

\* main, lines 294-300: the keys of results in insertion order
\*   environment = 环境配置, imports = 模块导入, app_structure = 应用结构,
\*   config_loading = 配置加载, services = 服务模块,
\*   file_operations = 文件操作, api_endpoints = API端点
TestNames == <<"environment", "imports", "app_structure", "config_loading",
               "services", "file_operations", "api_endpoints">>

\* test_environment, lines 36-40
required_vars == <<"OPENAI_API_KEY", "TENCENT_SECRET_ID", "TENCENT_SECRET_KEY">>

\* test_environment, lines 42-46, on the environment after load_dotenv()
missing_vars(env) ==
    SelectSeq(required_vars,
              LAMBDA var : \/ env[var] = Unset \/ env[var] = Empty
                           \/ StartsWith(env[var], YOUR)
                           \/ StartsWith(env[var], SKYOUR))

\* test_environment, lines 50-55
test_environment(env) == missing_vars(env) = <<>>

\* test_imports, lines 61-73: the import names
test_modules == <<"fastapi", "uvicorn", "cv2", "PIL", "numpy", "requests",
                  "dotenv", "tencentcloud", "qcloud_cos", "pydub", "redis">>

\* test_imports, lines 75-89
test_imports(mods) ==
    SelectSeq(test_modules, LAMBDA m : m \notin mods) = <<>>

\* test_app_structure, lines 95-105
required_files == <<"app/main.py", "app/config/settings.py",
                    "app/api/routes/video.py", "app/services/video_processor.py",
                    "app/services/speech_service.py", "app/static/index.html",
                    "app/static/js/main.js", "requirements.txt", ".env">>

\* test_app_structure, lines 107-120
test_app_structure(existing) ==
    SelectSeq(required_files, LAMBDA f : f \notin existing) = <<>>

\* the files of the working directory that test_app_structure looks for
ExistingFiles ==
    ({required_files[i] : i \in 1..(Len(required_files) - 1)}
        \ (IF appTree THEN {} ELSE {"app/static/js/main.js"}))
    \cup (IF envExists THEN {".env"} ELSE {})

\* test_api_endpoints, lines 204-209
endpoints == <<"/", "/docs", "/health", "/static/index.html">>

\* test_api_endpoints, lines 212-219: the line printed for one probe
ProbeOutcomes == {"200", "404", "request_exception"}
probe_line(outcome) ==
    IF outcome = "200" THEN "pass"
    ELSE IF outcome = "request_exception" THEN "error"
    ELSE "warning"

\* test_api_endpoints: time.sleep(3), subprocess.run(..., timeout=5),
\* requests.get(..., timeout=5)
settle_delay == 3
server_timeout == 5
request_timeout == 5
ProbeDurations == {0, 2, request_timeout}

Min(a, b) == IF a < b THEN a ELSE b

\* the instance started by the thread is still running
InstanceAlive == srvThread = "running" /\ elapsed < server_timeout

\* start_server that reports the timeout as an error
start_server_threadReporting(outcome) ==
    IF outcome = "returned" THEN <<>> ELSE <<"server_start_error">>

\* test_api_endpoints.start_server, lines 184-193: what the thread prints
ThreadOutcomes == {"timeout", "returned", "exception"}
start_server_thread(outcome) ==
    IF outcome = "exception" THEN <<"server_start_error">> ELSE <<>>

\* the number that is printed with one decimal place, in tenths
Tenths(passed, total) == (2000 * passed + total) \div (2 * total)

NoReport == [status |-> "none", total |-> 0, passed |-> 0, failed |-> 0,
             tenths |-> 0, lines |-> <<>>]

\* generate_test_report, lines 255-281
generate_test_report(res) ==
    LET total_tests == Len(res)
        passed_tests == Len(SelectSeq(res, LAMBDA e : e[2]))
        failed_tests == total_tests - passed_tests
    IN  IF total_tests = 0
        THEN [status |-> "ZeroDivisionError", total |-> total_tests,
              passed |-> passed_tests, failed |-> failed_tests,
              tenths |-> 0, lines |-> <<>>]
        ELSE [status |-> "printed", total |-> total_tests,
              passed |-> passed_tests, failed |-> failed_tests,
              tenths |-> Tenths(passed_tests, total_tests),
              lines |-> res]

InitTestProc ==
    /\ tpc = "test_environment"
    /\ tExit = "running"
    /\ tInterrupted = FALSE
    /\ results = <<>>
    /\ report = NoReport
    /\ tOut = <<>>
    /\ srvThread = "none"
    /\ probes = <<>>
    /\ elapsed = 0

InitTestIdle ==
    /\ tpc = "idle" /\ tExit = "running" /\ tInterrupted = FALSE
    /\ results = <<>> /\ report = NoReport /\ tOut = <<>>
    /\ srvThread = "none" /\ probes = <<>> /\ elapsed = 0
    /\ envDecodable = TRUE /\ appTree = TRUE

InitTestEnv ==
    /\ envExists \in BOOLEAN
    /\ envFile \in (IF envExists THEN {FileReal, FilePlaceholder} ELSE {<<>>})
    /\ envDecodable \in (IF envExists THEN BOOLEAN ELSE {TRUE})
    /\ environ = EmptyEnviron
    /\ modules \in {Requirements, {test_modules[i] : i \in 1..Len(test_modules)}}
    /\ appTree \in BOOLEAN
    /\ dirs \in {{}, {"temp"}}
    /\ blocked \in {{}, {"temp"}}
    /\ dirs \cap blocked = {}

\* main, lines 294-300: results[name] = value, then the next test
Record(name, value, next) ==
    /\ results' = Append(results, <<name, value>>)
    /\ tpc' = next
    /\ UNCHANGED <<tExit, report>>

\* main, lines 308-310: an exception of a test reaches except Exception
Raised ==
    /\ tpc' = "exited"
    /\ tExit' = "1"
    /\ tOut' = Append(tOut, "error_during_tests")
    /\ UNCHANGED <<results, report>>

\* test_environment, lines 28-55: load_dotenv() is not guarded
TsEnvironment ==
    /\ tpc = "test_environment"
    /\ IF envExists /\ ~envDecodable
       THEN Raised /\ UNCHANGED environ
       ELSE /\ environ' = LoadDotenv(environ, envExists, envFile)
            /\ Record(TestNames[1], test_environment(environ'), "test_imports")
            /\ tOut' = tOut \o missing_vars(environ')
    /\ UNCHANGED <<tframe, dirs, tInterrupted, srvThread, probes, envDecodable, appTree, elapsed>>

\* test_imports, lines 57-89: only ImportError is caught
TsImports(broken) ==
    /\ tpc = "test_imports"
    /\ IF broken
       THEN Raised
       ELSE Record(TestNames[2], test_imports(modules), "test_app_structure")
            /\ UNCHANGED tOut
    /\ UNCHANGED <<tframe, environ, dirs, tInterrupted, srvThread, probes,
                   envDecodable, appTree, elapsed>>

\* test_app_structure, lines 91-120
TsAppStructure ==
    /\ tpc = "test_app_structure"
    /\ Record(TestNames[3], test_app_structure(ExistingFiles), "test_config_loading")
    /\ UNCHANGED <<tframe, environ, dirs, tInterrupted, tOut, srvThread, probes,
                   envDecodable, appTree, elapsed>>

\* test_config_loading, lines 122-142: every Exception is caught
TsConfigLoading(ok) ==
    /\ tpc = "test_config_loading"
    /\ Record(TestNames[4], ok, "test_services")
    /\ UNCHANGED <<tframe, environ, dirs, tInterrupted, tOut, srvThread, probes,
                   envDecodable, appTree, elapsed>>

\* test_services, lines 144-173: every Exception is caught
TsServices(ok) ==
    /\ tpc = "test_services"
    /\ Record(TestNames[5], ok, "test_file_operations")
    /\ UNCHANGED <<tframe, environ, dirs, tInterrupted, tOut, srvThread, probes,
                   envDecodable, appTree, elapsed>>

\* test_file_operations, lines 223-253: every Exception is caught
TsFileOperations ==
    /\ tpc = "test_file_operations"
    /\ IF "temp" \in blocked
       THEN Record(TestNames[6], FALSE, "test_api_endpoints") /\ UNCHANGED dirs
       ELSE /\ dirs' = dirs \cup {"temp"}
            /\ Record(TestNames[6], TRUE, "test_api_endpoints")
    /\ UNCHANGED <<tframe, environ, tInterrupted, tOut, srvThread, probes,
                   envDecodable, appTree, elapsed>>

\* test_api_endpoints, lines 196-200: the thread is started, then sleep(3)
TsApiStart ==
    /\ tpc = "test_api_endpoints"
    /\ srvThread' = "running"
    /\ elapsed' = settle_delay
    /\ tpc' = "probing"
    /\ UNCHANGED <<tframe, environ, dirs, tExit, tInterrupted, results, report, tOut,
                   probes, envDecodable, appTree>>

\* test_api_endpoints, lines 211-219: one requests.get, sent now and taking
\* took time units, and the line printed
TsProbe(outcome, took) ==
    /\ tpc = "probing"
    /\ Len(probes) < Len(endpoints)
    /\ probes' = Append(probes, [endpoint |-> endpoints[Len(probes) + 1],
                                 outcome |-> outcome,
                                 line |-> probe_line(outcome),
                                 alive |-> InstanceAlive])
    /\ elapsed' = Min(elapsed + took, server_timeout)
    /\ UNCHANGED <<tframe, environ, dirs, tpc, tExit, tInterrupted, results, report,
                   tOut, srvThread, envDecodable, appTree>>

\* test_api_endpoints, line 221, and main, line 300
TsApiReturn ==
    /\ tpc = "probing"
    /\ Len(probes) = Len(endpoints)
    /\ Record(TestNames[7], TRUE, "generate_test_report")
    /\ UNCHANGED <<tframe, environ, dirs, tInterrupted, tOut, srvThread, probes,
                   envDecodable, appTree, elapsed>>

\* main, line 303, then main returns
TsReport ==
    /\ tpc = "generate_test_report"
    /\ report' = generate_test_report(results)
    /\ tpc' = "exited"
    /\ tExit' = IF report'.status = "printed" THEN "0" ELSE "1"
    /\ UNCHANGED <<tframe, environ, dirs, tInterrupted, results, tOut, srvThread,
                   probes, envDecodable, appTree, elapsed>>

\* the background thread: subprocess.run ends (the instance exits by
\* itself, cannot be started, or is killed when timeout=5 expires) and
\* start_server handles it
ThreadEnd(outcome) ==
    /\ srvThread = "running"
    /\ tpc # "exited"
    /\ outcome = "timeout" => elapsed >= server_timeout
    /\ srvThread' = outcome
    /\ tOut' = tOut \o start_server_thread(outcome)
    /\ UNCHANGED <<tframe, environ, dirs, tpc, tExit, tInterrupted, results, report,
                   probes, envDecodable, appTree, elapsed>>

\* main, lines 305-307
TsInterrupt ==
    /\ tpc \notin {"idle", "exited"}
    /\ tInterrupted' = TRUE
    /\ tpc' = "exited"
    /\ tExit' = "0"
    /\ tOut' = Append(tOut, "cancelled")
    /\ UNCHANGED <<tframe, environ, dirs, results, report, srvThread, probes,
                   envDecodable, appTree, elapsed>>

NextTest ==
    \/ TsEnvironment
    \/ \E broken \in BOOLEAN : TsImports(broken)
    \/ TsAppStructure
    \/ \E ok \in BOOLEAN : TsConfigLoading(ok)
    \/ \E ok \in BOOLEAN : TsServices(ok)
    \/ TsFileOperations
    \/ TsApiStart
    \/ \E o \in ProbeOutcomes, d \in ProbeDurations : TsProbe(o, d)
    \/ TsApiReturn
    \/ TsReport
    \/ \E o \in ThreadOutcomes : ThreadEnd(o)
    \/ TsInterrupt

-----------------------------------------------------------------------------
(* setup_api_keys.py: the display of an existing credential *)

\* current_key[:n]
First(s, n) == SubSeq(s, 1, IF n < Len(s) THEN n ELSE Len(s))

\* current_key[-n:]
Last(s, n) == SubSeq(s, IF Len(s) > n THEN Len(s) - n + 1 ELSE 1, Len(s))

Dots == <<".", ".", ".">>

\* configure_openai, line 98, and configure_tencent, line 129: slice lengths
openai_prefix == 10
tencent_prefix == 8
suffix_len == 4

\* a display that shows one character less of the prefix
display_openaiShort(current_key) ==
    First(current_key, openai_prefix - 1) \o Dots \o Last(current_key, suffix_len)

\* configure_openai, line 98: f"{current_key[:10]}...{current_key[-4:]}"
display_openai(current_key) ==
    First(current_key, openai_prefix) \o Dots \o Last(current_key, suffix_len)

\* configure_tencent, line 129: f"{current_id[:8]}...{current_id[-4:]}"
display_tencent(current_id) ==
    First(current_id, tencent_prefix) \o Dots \o Last(current_id, suffix_len)

\* bound on the length of the stored credentials enumerated
MaxSecretLen == 15

SecretAlphabet == {"a", "b"}

StoredSecrets ==
    UNION {[1..n -> SecretAlphabet] : n \in 1..MaxSecretLen}
        \cup {Empty, OAPH, TIDPH, OA1, TID1}

NothingShown == [kind |-> "none", text |-> <<>>]

InitMask == secIn \in StoredSecrets /\ shown = NothingShown

InitMaskIdle == secIn = <<>> /\ shown = NothingShown

\* configure_openai, lines 96-98: the current key is displayed
ShowOpenai ==
    /\ shown.kind = "none"
    /\ Existing(secIn, SKYOUR)
    /\ shown' = [kind |-> "openai", text |-> display_openai(secIn)]
    /\ UNCHANGED <<fvars, dvars, pvars, evars, qvars, ivars, tvars, repIn, repOut,
                   secIn>>

\* configure_tencent, lines 125-129: the current secret id is displayed
ShowTencent ==
    /\ shown.kind = "none"
    /\ Existing(secIn, YOUR)
    /\ shown' = [kind |-> "tencent", text |-> display_tencent(secIn)]
    /\ UNCHANGED <<fvars, dvars, pvars, evars, qvars, ivars, tvars, repIn, repOut,
                   secIn>>

NextMask == ShowOpenai \/ ShowTencent

\* generate_test_report called on its own with any result mapping
MaxResults == 6

ResultMappings ==
    UNION {{[i \in 1..n |-> <<TestNames[i], f[i]>>] : f \in [1..n -> BOOLEAN]}
           : n \in 0..MaxResults}

InitReport == repIn \in ResultMappings /\ repOut = NoReport /\ InitMaskIdle

InitReportIdle == repIn = <<>> /\ repOut = NoReport /\ InitMaskIdle

Report ==
    /\ repOut.status = "none"
    /\ repOut' = generate_test_report(repIn)
    /\ UNCHANGED <<fvars, dvars, pvars, evars, qvars, ivars, tvars, repIn, secIn,
                   shown>>

InitToolsIdle ==
    /\ pyMinor = 9 /\ modules = {}
    /\ InitQuickIdle /\ InitInstIdle
    /\ InitTestIdle /\ InitReportIdle

-----------------------------------------------------------------------------
(* Specifications *)

InitDeployIdle ==
    /\ pyOk = TRUE /\ depsOk = TRUE /\ dotenvOk = TRUE
    /\ dirs = {} /\ blocked = {}
    /\ dpc = "idle" /\ choice = "" /\ qdIdx = 0 /\ qdLog = <<>> /\ qdResult = "-"
    /\ failMsgs = <<>> /\ cfgMsgs = {} /\ installRuns = 0 /\ child = "none"
    /\ srvCalls = 0 /\ interrupted = FALSE /\ exitStatus = "running"

InitProv ==
    /\ InitProvEnv /\ InitProvProc /\ ppc = "start"
    /\ InitDeployIdle /\ InitToolsIdle

NextProv ==
    \/ PLoad
    \/ OaBegin
    \/ \E raw \in YesNoInputs : OaKeep(raw)
    \/ \E raw \in KeyInputs : OaEntry(raw)
    \/ \E o \in OpenaiOutcomes : OaTest(o)
    \/ \E raw \in YesNoInputs : OaRetry(raw)
    \/ TcBegin
    \/ \E raw \in YesNoInputs : TcKeep(raw)
    \/ \E raw \in IdInputs : TcEntryId(raw)
    \/ \E raw \in SecretInputs : TcEntryKey(raw)
    \/ \E o \in TencentOutcomes : TcTest(o)
    \/ \E raw \in YesNoInputs : TcRetry(raw)
    \/ \E raw \in OptionInputs : OptSpeech(raw)
    \/ \E raw \in OptionInputs : OptVideo(raw)
    \/ SaveBegin
    \/ SaveWrite
    \/ SaveWriteFails
    \/ SaveDone
    \/ PInterrupt
    \/ ManualEdit("OPENAI_API_KEY", OA2)
    \/ ManualEdit("TENCENT_SECRET_ID", TID2)

SpecProv == InitProv /\ [][NextProv]_vars

\* deploy.setup_configuration, lines 126-127: subprocess.run(..., input="y\n")
\* hands the provisioner a pipe with this one line
MenuInput == Piped(<<Y>>)

\* the provisioner run from a terminal or by the menu of deploy.py
InitSetup ==
    /\ InitProvEnv /\ InitProvState /\ ppc = "start"
    /\ stdin \in {Tty, MenuInput}
    /\ InitDeployIdle /\ InitToolsIdle

NextSetup ==
    \/ NextProv
    \/ OaEntry(Y)
    \/ TcEntryId(Y)
    \/ PromptEof

SpecSetup == InitSetup /\ [][NextSetup]_vars

InitDeploy ==
    /\ InitDeployEnv /\ InitDeployProc
    /\ InitProvProc /\ ppc = "idle" /\ exampleExists = FALSE
    /\ InitToolsIdle

NextDeploy ==
    \/ \E c \in Choices : Menu(c)
    \/ Pause
    \/ \E o \in InstallOutcomes : MenuInstallReturn(o)
    \/ \E o \in SetupOutcomes : MenuSetupReturn(o)
    \/ \E o \in TestOutcomes : MenuTestsReturn(o)
    \/ QdStepStart
    \/ StepCheckSystem
    \/ StepCreateDirectories
    \/ StepCheckDependencies
    \/ StepCheckConfiguration
    \/ \E o \in TestOutcomes : StepRunTests(o)
    \/ \E o \in InstallOutcomes : QdInstallReturn(o)
    \/ QdFinish
    \/ AfterQuickDeploy
    \/ \E ok \in BOOLEAN : SrvPopen(ok)
    \/ SrvSleepDone
    \/ \E ok \in BOOLEAN : SrvBrowser(ok)
    \/ SrvWaitReturn
    \/ SrvWaitInterrupted
    \/ SrvTerminate
    \/ SrvReturn
    \/ ChildExit
    \/ Interrupt

SpecDeploy == InitDeploy /\ [][NextDeploy]_vars

\* the entry points side by side: one of them runs, the others stay idle
InitDeployProcIdle ==
    /\ pyOk = TRUE /\ depsOk = TRUE /\ dotenvOk = TRUE
    /\ dpc = "idle" /\ choice = "" /\ qdIdx = 0 /\ qdLog = <<>> /\ qdResult = "-"
    /\ failMsgs = <<>> /\ cfgMsgs = {} /\ installRuns = 0 /\ child = "none"
    /\ srvCalls = 0 /\ interrupted = FALSE /\ exitStatus = "running"

InitQuick ==
    /\ InitQuickEnv /\ InitQuickProc
    /\ InitInstIdle /\ InitTestIdle /\ InitReportIdle
    /\ InitDeployProcIdle
    /\ InitProvProc /\ ppc = "idle"

InitInst ==
    /\ InitInstEnv /\ InitInstProc
    /\ InitQuickIdle /\ InitTestIdle /\ InitReportIdle
    /\ InitDeployIdle
    /\ InitProvProc /\ ppc = "idle" /\ exampleExists = FALSE
    /\ envExists = FALSE /\ envFile = <<>> /\ environ = EmptyEnviron

\* test_system.py
InitTest ==
    /\ InitTestEnv /\ InitTestProc
    /\ pyMinor = 9
    /\ InitQuickIdle /\ InitInstIdle /\ InitReportIdle
    /\ InitDeployProcIdle
    /\ InitProvProc /\ ppc = "idle" /\ exampleExists = FALSE

SpecTest == InitTest /\ [][NextTest]_vars

InitEntry == InitDeploy \/ InitQuick \/ InitInst \/ InitTest

NextEntry == NextDeploy \/ NextQuick \/ NextInst \/ NextTest

SpecEntry == InitEntry /\ [][NextEntry]_vars

\* generate_test_report as a function of its argument
InitReportOnly ==
    /\ InitReport
    /\ pyMinor = 9 /\ modules = {}
    /\ InitQuickIdle /\ InitInstIdle /\ InitTestIdle
    /\ InitDeployIdle
    /\ InitProvProc /\ ppc = "idle" /\ exampleExists = FALSE
    /\ envExists = FALSE /\ envFile = <<>> /\ environ = EmptyEnviron

NextReport == Report

\* the display of an existing credential as a function of the credential
InitMaskOnly ==
    /\ InitMask
    /\ repIn = <<>> /\ repOut = NoReport
    /\ pyMinor = 9 /\ modules = {}
    /\ InitQuickIdle /\ InitInstIdle /\ InitTestIdle
    /\ InitDeployIdle
    /\ InitProvProc /\ ppc = "idle" /\ exampleExists = FALSE
    /\ envExists = FALSE /\ envFile = <<>> /\ environ = EmptyEnviron

SpecMask == InitMaskOnly /\ [][NextMask]_vars

SpecReport == InitReportOnly /\ [][NextReport]_vars

-----------------------------------------------------------------------------
(* Properties of deploy.py *)

\* the number of step starts among the first i events of the log
RECURSIVE Starts(_)
Starts(i) == IF i = 0 THEN 0
             ELSE Starts(i - 1) + (IF qdLog[i].ev = "start" THEN 1 ELSE 0)

\* the step (or its remediation) recorded at position i succeeded
Succeeded(i) == qdLog[i].ev \in {"end", "remediate"} /\ qdLog[i].res = "True"

\* the failure recorded at position i has no remediation, or its remediation failed
FinalFailure(i) ==
    \/ qdLog[i].ev = "end" /\ qdLog[i].res = "False"
                           /\ qdLog[i].step # "check_dependencies"
    \/ qdLog[i].ev = "remediate" /\ qdLog[i].res = "False"

StepPassed(name) ==
    \E i \in 1..Len(qdLog) :
        /\ qdLog[i].ev = "end" /\ qdLog[i].step = name
        /\ \/ qdLog[i].res = "True"
           \/ /\ name = "check_dependencies" /\ qdLog[i].res = "False"
              /\ i < Len(qdLog) /\ Succeeded(i + 1)

FixedOrder == <<"check_system", "create_directories", "check_dependencies",
                "check_configuration", "run_tests">>

\* C1: in a quick-deploy run the steps start in the fixed order environment
\* check, directory creation, dependency check, configuration check, tests;
\* a step starts only after the previous one has returned (successfully, or
\* remediated); a step that fails without successful remediation is the last
\* event of the run and the run returns False.
C1_StepsStrictlySequential ==
    \A i \in 1..Len(qdLog) :
        /\ qdLog[i].ev = "start" =>
              /\ Starts(i) <= Len(FixedOrder)
              /\ qdLog[i].step = FixedOrder[Starts(i)]
              /\ i > 1 => Succeeded(i - 1)
        /\ qdLog[i].ev = "end" =>
              /\ i > 1
              /\ qdLog[i - 1] = Event("start", qdLog[i].step, "-")
        /\ qdLog[i].ev = "remediate" =>
              /\ i > 1
              /\ qdLog[i - 1] = Event("end", "check_dependencies", "False")
        /\ FinalFailure(i) => i = Len(qdLog) /\ qdResult = "False"
        /\ qdLog[i].res = "raise" => i = Len(qdLog) /\ exitStatus = "1"

\* C1 witness: a run whose dependency check failed and was remediated, and
\* whose test step then failed and ended the run
C1_Witness ==
    /\ qdResult = "False"
    /\ \E i \in 1..Len(qdLog) : qdLog[i].ev = "remediate" /\ qdLog[i].res = "True"
    /\ qdLog[Len(qdLog)] = Event("end", "run_tests", "False")

\* C2: when quick deploy (menu action 1) finds no configuration file, the
\* required directories exist, the environment check passed and the
\* dependency check passed or was remediated, the configuration check
\* reported the missing configuration and returned (no crash), the failure
\* message names that step, and start_server is never invoked; and whenever
\* the service is launched after quick deploy, every step passed or was
\* remediated.
C2_NoConfigNoLaunch ==
    /\ "env_missing" \in cfgMsgs =>
          /\ {"temp", "output", "uploads", "logs"} \subseteq dirs
          /\ StepPassed("check_system")
          /\ StepPassed("check_dependencies")
          /\ qdLog[Len(qdLog)] = Event("end", "check_configuration", "False")
          /\ cfgMsgs = {"env_missing"}
          /\ \E j \in 1..Len(failMsgs) : failMsgs[j] = "check_configuration"
          /\ qdResult = "False"
          /\ exitStatus # "1"
          /\ srvCalls = 0 /\ child = "none"
    /\ (choice = "1" /\ srvCalls > 0) =>
          /\ qdResult = "True"
          /\ \A j \in 1..Len(FixedOrder) : StepPassed(FixedOrder[j])

\* C2 witness: the run over a missing configuration file has ended, not by
\* an interrupt
C2_Witness ==
    /\ dpc = "exited" /\ ~interrupted /\ choice = "1"
    /\ "env_missing" \in cfgMsgs
    /\ exitStatus = "0"

\* C3 as stated: a failure of the configuration check or of the test step
\* does not abort the run.
C3_ConfigAndTestFailuresContinue ==
    \A i \in 1..Len(qdLog) :
        (/\ qdLog[i].ev = "end" /\ qdLog[i].res = "False"
         /\ qdLog[i].step \in {"check_configuration", "run_tests"})
        => qdResult # "False"

\* C3 amended: a failure of any step aborts the run, the configuration check
\* (missing file) and the test step included, except a dependency-check
\* failure whose install succeeds; unconfigured or placeholder credentials in
\* an existing file are only reported, the configuration check passes and
\* the run goes on to the test step.
C3_EveryFailureAborts ==
    /\ \A i \in 1..Len(qdLog) :
          /\ FinalFailure(i) => qdResult = "False" /\ i = Len(qdLog)
          /\ (qdLog[i] = Event("end", "check_dependencies", "False") /\ i < Len(qdLog))
                => qdLog[i + 1].ev = "remediate"
    /\ qdResult = "False" => FinalFailure(Len(qdLog))
    /\ (cfgMsgs \cap {"openai_unconfigured", "tencent_unconfigured"}) # {} =>
          /\ \E i \in 1..Len(qdLog) :
                /\ qdLog[i] = Event("end", "check_configuration", "True")
                /\ i < Len(qdLog) => qdLog[i + 1] = Event("start", "run_tests", "-")
          /\ qdResult = "False" => qdLog[Len(qdLog)] = Event("end", "run_tests", "False")

\* C3 witness: placeholder credentials were reported, the run went on, and
\* the failing test step then aborted it
C3_Witness ==
    /\ "openai_unconfigured" \in cfgMsgs
    /\ qdResult = "False"
    /\ qdLog[Len(qdLog)] = Event("end", "run_tests", "False")

\* C4: after an interrupt the orchestrator never ends while the service
\* child process it spawned is still running.
C4_InterruptLeavesNoChild ==
    (dpc = "exited" /\ interrupted) => child \in {"none", "exited"}

-----------------------------------------------------------------------------
(* Properties of setup_api_keys.py *)

\* the lines of a file that set none of the keys ks, in file order
Without(file, ks) == SelectSeq(file, LAMBDA e : e[1] \notin ks)

KeysOf(file) == [i \in 1..Len(file) |-> file[i][1]]

WrittenKeys == {written[i][1] : i \in 1..Len(written)}

AllAliasesHold(id, key) ==
    /\ \A k \in {"TENCENT_SECRET_ID", "TENCENT_ASR_SECRET_ID", "TENCENT_TMT_SECRET_ID"} :
          Lookup(envFile, k) = id
    /\ \A k \in {"TENCENT_SECRET_KEY", "TENCENT_ASR_SECRET_KEY", "TENCENT_TMT_SECRET_KEY"} :
          Lookup(envFile, k) = key

NoAliasChanged ==
    \A i \in 1..Len(TencentAliases) :
        Lookup(envFile, TencentAliases[i]) = Lookup(storeBefore, TencentAliases[i])

\* C5: when a provisioner run that had a cloud credential pair to persist
\* has ended (completed, interrupted, or failed in a write) and nobody else
\* touched the file, either all six alias keys hold the pair or none of them
\* has been changed
C5_AliasFanOutAtomic ==
    (/\ ppc \in {"done", "exited"}
     /\ edits = 0
     /\ written # <<>>
     /\ Truthy(tencent_id) /\ Truthy(tencent_key))
    => (AllAliasesHold(tencent_id, tencent_key) \/ NoAliasChanged)

\* C6: a key edited by hand in .env after the provisioner's load is not
\* overwritten with the value loaded earlier when the user keeps the
\* existing credential
C6_KeepDoesNotClobberManualEdit ==
    (/\ ppc = "done"
     /\ kept.openai
     /\ lastEdit.key = "OPENAI_API_KEY")
    => Lookup(envFile, "OPENAI_API_KEY") = lastEdit.value

\* C7: after each set_key of save_configuration the file read back gives the
\* written value for the written key, and the lines of all other keys are
\* the same lines in the same order; after the whole save every written key
\* reads back its value, the lines of the keys not written are unchanged, and
\* the keys present before keep their positions (new keys are appended)
C7_WriteReadBackAndFrame ==
    /\ lastWrite.key # "" =>
          /\ Lookup(envFile, lastWrite.key) = lastWrite.value
          /\ Without(envFile, {lastWrite.key}) = Without(lastWrite.before, {lastWrite.key})
          /\ SubSeq(KeysOf(envFile), 1, Len(lastWrite.before)) = KeysOf(lastWrite.before)
    /\ ppc = "done" =>
          /\ \A i \in 1..Len(written) : Lookup(envFile, written[i][1]) = written[i][2]
          /\ Without(envFile, WrittenKeys) = Without(storeBefore, WrittenKeys)
          /\ Len(envFile) >= Len(storeBefore)
          /\ SubSeq(KeysOf(envFile), 1, Len(storeBefore)) = KeysOf(storeBefore)

\* C7 witness: a completed save over a file that had unrelated lines, that
\* replaced a key in place and appended new keys
C7_Witness ==
    /\ ppc = "done"
    /\ Without(storeBefore, WrittenKeys) # <<>>
    /\ \E i \in 1..Len(written) :
          Lookup(storeBefore, written[i][1]) \notin {Unset, written[i][2]}
    /\ Len(envFile) > Len(storeBefore)

\* C8: a kept credential is the existing non-placeholder one and no
\* verification call was made for that service
C8_KeepSkipsVerification ==
    /\ kept.openai =>
          /\ testCalls.openai = 0 /\ lastTest.openai = NoTest
          /\ ppc # "oa_test"
          /\ Existing(Getenv(environ, "OPENAI_API_KEY", Empty), SKYOUR)
          /\ openai_key = Getenv(environ, "OPENAI_API_KEY", Empty)
    /\ kept.tencent =>
          /\ testCalls.tencent = 0 /\ lastTest.tencent = NoTest
          /\ Existing(Getenv(environ, "TENCENT_SECRET_ID", Empty), YOUR)
          /\ tencent_id = Getenv(environ, "TENCENT_SECRET_ID", Empty)
          /\ tencent_key = Getenv(environ, "TENCENT_SECRET_KEY", Empty)

\* C8 witness: both credentials were kept and the run completed
C8_Witness == ppc = "done" /\ kept.openai /\ kept.tencent

\* C9: a newly entered speech-provider key that does not start with 'sk-'
\* leads straight back to the entry prompt: it is never verified, never
\* followed by the retry question, never returned and never written
C9_MalformedKeyNeverAccepted ==
    /\ (apiKeyIn # Empty /\ ~StartsWith(apiKeyIn, SK)) =>
          /\ ppc \in {"oa_entry", "exited"}
          /\ openai_key \in {Unset, None}
    /\ lastTest.openai # NoTest => StartsWith(lastTest.openai.arg, SK)
    /\ ppc \in {"oa_test", "oa_retry"} => StartsWith(apiKeyIn, SK)
    /\ (~kept.openai /\ openai_key \notin {Unset, None}) => StartsWith(openai_key, SK)
    /\ ~kept.openai =>
          \A i \in 1..Len(written) :
              written[i][1] = "OPENAI_API_KEY" => StartsWith(written[i][2], SK)

\* C9 witness: after a failed verification and a retry, a malformed key was
\* typed and the entry prompt is up again
C9_Witness ==
    /\ ppc = "oa_entry"
    /\ apiKeyIn # Empty /\ ~StartsWith(apiKeyIn, SK)
    /\ testCalls.openai = 1

\* C10: a verification call that times out or cannot connect gives False and
\* does not end the run; every listed outcome (success, rejected, network
\* error, SDK exception) of either provider's verification gives a boolean
C10_VerificationFailureIsBoolean ==
    /\ lastTest.openai.outcome \in {"200", "401", "timeout", "connection_error"} =>
          lastTest.openai.result \in {"True", "False"}
    /\ lastTest.openai.outcome \in {"timeout", "connection_error"} =>
          lastTest.openai.result = "False"
    /\ lastTest.tencent.outcome \in {"constructed", "import_error", "sdk_exception"} =>
          lastTest.tencent.result \in {"True", "False"}
    /\ lastTest.tencent.outcome \in {"import_error", "sdk_exception"} =>
          lastTest.tencent.result = "False"
    /\ (pExit = "1" /\ written = <<>>) => lastTest.openai.outcome = "other_exception"

\* C10 witness: the speech verification timed out, the cloud verification
\* raised in the SDK, and the provisioner is asking whether to retry
C10_Witness ==
    /\ lastTest.openai.outcome = "timeout"
    /\ lastTest.tencent.outcome = "sdk_exception"
    /\ ppc = "tc_retry"


(***************************************************************************)
(* C11  After a failed verification the provisioner offers retry-or-skip   *)
(* and the loop has no attempt limit: whatever the number of failed        *)
(* attempts so far, answering the retry prompt with "y" leads to the entry *)
(* prompt again.  The loop is left only with a verified credential or,     *)
(* after a failed verification and a declined retry, with the service      *)
(* skipped (None).                                                         *)
(***************************************************************************)
OaRetryAccepted == OaRetry(Y) /\ ppc' = "oa_entry"
TcRetryAccepted == TcRetry(Y) /\ ppc' = "tc_entry_id"

C11_RetryLoopUnbounded ==
    /\ ppc = "oa_retry" =>
          /\ lastTest.openai.result = "False"
          /\ ENABLED OaRetryAccepted
    /\ ppc = "tc_retry" =>
          /\ lastTest.tencent.result = "False"
          /\ ENABLED TcRetryAccepted
    /\ openai_key = None => lastTest.openai.result = "False"
    /\ (openai_key \notin {Unset, None} /\ ~kept.openai) =>
          /\ lastTest.openai.result = "True"
          /\ openai_key = lastTest.openai.arg
    /\ tencent_id = None =>
          tencent_key = None /\ lastTest.tencent.result = "False"
    /\ (tencent_id \notin {Unset, None} /\ ~kept.tencent) =>
          /\ lastTest.tencent.result = "True"
          /\ tencent_id \o tencent_key = lastTest.tencent.arg

\* MaxAttempts verifications failed, each answered with retry, and the
\* entry prompt is offered once more
C11_Witness ==
    /\ ppc = "oa_entry"
    /\ testCalls.openai = MaxAttempts
    /\ lastTest.openai.result = "False"


(***************************************************************************)
(* C12  Dependency installation is attempted at most once per              *)
(* orchestration run and never retried: when the installer fails the       *)
(* failure is reported and the run ends there, no later step is executed   *)
(* and the service is not started (deploy.quick_deploy and                 *)
(* quick_start.main).                                                      *)
(***************************************************************************)
Remediations == {i \in 1..Len(qdLog) : qdLog[i].ev = "remediate"}

C12_InstallAtMostOnceThenAbort ==
    /\ Cardinality(Remediations) <= 1
    /\ dpc = "qd_install" => Remediations = {}
    /\ \A i \in Remediations :
          qdLog[i].res = "False" =>
             /\ i = Len(qdLog)
             /\ qdResult = "False"
             /\ dpc \in {"qd_ret", "exited"}
             /\ srvCalls = 0
             /\ \E k \in 1..Len(failMsgs) : failMsgs[k] = "check_dependencies"
    /\ qPip <= 1
    /\ qpc = "pip" => qPip = 1
    /\ \A i \in 1..Len(qOut) :
          (qOut[i] = "deps_missing" /\ i < Len(qOut)
              /\ qOut[i + 1] \in {"install_failed", "traceback"}) =>
             /\ i + 1 = Len(qOut)
             /\ qpc = "exited" /\ qExit = "1"
             /\ qChild = "none"

\* the installer started by quick_deploy failed and the menu process is over
C12_Witness ==
    /\ dpc = "exited"
    /\ \E i \in Remediations : qdLog[i].res = "False"


(***************************************************************************)
(* C13  The dependency step with all dependencies already present is a     *)
(* no-op: the package manager is not invoked, for the dependency step of   *)
(* deploy.quick_deploy, of quick_start.main and of                         *)
(* install_dependencies.main.                                              *)
(***************************************************************************)
C13_DependencyStepNoOpWhenPresent ==
    /\ dpc = "qd_install" => ~depsOk
    /\ qpc = "pip" => ~(Requirements \subseteq modules)
    /\ (ipc = "install_requirements" /\ CriticalImports \subseteq modules) =>
          iPip = 0

(***************************************************************************)
(* C14  Every external call of the orchestrator is bounded by a timeout:   *)
(* a subprocess call in flight whose child never responds can still end,   *)
(* with the timeout outcome.                                               *)
(***************************************************************************)
\* the outcomes a call can still produce when the child never responds
WithoutResponse(outcomes) == outcomes \cap {"timeout"}

C14_EveryExternalCallHasTimeout ==
    /\ dpc \in {"m_install", "qd_install"} => WithoutResponse(InstallOutcomes) # {}
    /\ dpc = "m_setup" => WithoutResponse(SetupOutcomes) # {}
    /\ dpc = "m_tests" => WithoutResponse(TestOutcomes) # {}
    /\ qpc = "pip" => WithoutResponse(PipOutcomes) # {}


(***************************************************************************)
(* C19  When a process-level interrupt cancels the orchestrator (at the    *)
(* menu, in a step, or while the launched service is supervised) the       *)
(* orchestrator process exits with a non-success status.                   *)
(***************************************************************************)
C19_InterruptExitsNonSuccess ==
    /\ (dpc = "exited" /\ interrupted) => exitStatus # "0"
    /\ (qpc = "exited" /\ qChild = "killed") => qExit # "0"

(***************************************************************************)
(* C20  The menu process of deploy.py exits with status 0 on a normal exit *)
(* (the exit action, or after the quick-deploy or start-service action     *)
(* returned) and on an interrupted exit, and with status 1 exactly when an *)
(* exception raised by an orchestration step reached the menu loop.        *)
(***************************************************************************)
StepRaised == qdLog # <<>> /\ qdLog[Len(qdLog)].res = "raise"

C20_MenuExitStatus ==
    /\ dpc # "exited" => exitStatus = "running"
    /\ dpc = "exited" =>
          /\ exitStatus \in {"0", "1"}
          /\ exitStatus = "1" <=> StepRaised
          /\ interrupted => exitStatus = "0"
          /\ (choice \in {"1", "5", "6"} /\ ~StepRaised) => exitStatus = "0"

\* a step raised and the menu process ended with status 1
C20_Witness ==
    /\ dpc = "exited"
    /\ StepRaised
    /\ exitStatus = "1"



(***************************************************************************)
(* C15  Each probed endpoint passes exactly when its GET returns 200, any  *)
(* other status or a request exception is a fail that is recorded and not  *)
(* raised, so the outcome of the API-endpoint test handed to the report is *)
(* failed whenever at least one probe failed.                              *)
(***************************************************************************)
C15_FailedProbeFailsApiTest ==
    /\ \A i \in 1..Len(probes) :
          probes[i].line = "pass" <=> probes[i].outcome = "200"
    /\ \A k \in 1..Len(results) :
          (/\ results[k][1] = "api_endpoints"
           /\ \E i \in 1..Len(probes) : probes[i].outcome # "200")
             => results[k][2] = FALSE

(***************************************************************************)
(* C16  Every harness run that the user does not interrupt reaches         *)
(* generate_test_report with one entry for each of the seven tests,        *)
(* whatever each test does, a test that raises included.                   *)
(***************************************************************************)
C16_ReportAlwaysEnumeratesAllTests ==
    (tpc = "exited" /\ ~tInterrupted) =>
        /\ report.status = "printed"
        /\ Len(report.lines) = Len(TestNames)
        /\ \A i \in 1..Len(TestNames) : report.lines[i][1] = TestNames[i]

(***************************************************************************)
(* C17  For every mapping of test names to booleans the report has         *)
(* total = number of entries, passed = number of true entries,             *)
(* failed = total - passed and percentage = passed/total*100 to one        *)
(* decimal place; for the empty mapping total = 0 and the percentage is 0, *)
(* with no division by zero.                                               *)
(***************************************************************************)
TrueEntries == Cardinality({i \in 1..Len(repIn) : repIn[i][2]})

C17_ReportArithmetic ==
    repOut.status # "none" =>
        /\ repOut.status = "printed"
        /\ repOut.total = Len(repIn)
        /\ repOut.passed = TrueEntries
        /\ repOut.failed = repOut.total - repOut.passed
        /\ IF repOut.total = 0 THEN repOut.tenths = 0
           ELSE /\ 2 * (repOut.tenths * repOut.total - 1000 * repOut.passed)
                      <= repOut.total
                /\ 2 * (1000 * repOut.passed - repOut.tenths * repOut.total)
                      <= repOut.total

(***************************************************************************)
(* C18  The enforced timeout that ends the transient service instance of   *)
(* the smoke-test harness is the expected path: it is swallowed, it is not *)
(* reported as an error, it does not leave the background thread as an     *)
(* exception, and it does not by itself fail the API-endpoint test.        *)
(***************************************************************************)
C18_HarnessTimeoutIsExpected ==
    srvThread = "timeout" =>
        /\ \A i \in 1..Len(tOut) :
              tOut[i] \notin {"server_start_error", "error_during_tests"}
        /\ tExit # "1"
        /\ \A k \in 1..Len(results) :
              results[k][1] = "api_endpoints" => results[k][2] = TRUE

\* the instance was ended by the timeout and the run went on to its report
C18_Witness ==
    /\ srvThread = "timeout"
    /\ tpc = "exited"
    /\ report.status = "printed"
    /\ \A i \in 1..Len(probes) : probes[i].outcome = "200"


(***************************************************************************)
(* C21  In the menu loop an input other than one of the six numbered       *)
(* actions executes no action and the menu is shown again; actions 2, 3    *)
(* and 4 go back to the menu after they ran; actions 1, 5 and 6 end the    *)
(* loop (the menu is never shown again).  Interrupts apart.                *)
(***************************************************************************)
MenuTarget(c) ==
    CASE c = "1" -> "qd_loop"
      [] c = "2" -> "m_install"
      [] c = "3" -> "m_setup"
      [] c = "4" -> "m_tests"
      [] c = "5" -> "srv_start"
      [] c = "6" -> "exited"
      [] OTHER   -> "pause"

C21_MenuLoopStep ==
    /\ (dpc = "menu" /\ dpc' # "menu" /\ ~interrupted') =>
          /\ dpc' = MenuTarget(choice')
          /\ choice' \notin {"1", "2", "3", "4", "5", "6"} =>
                UNCHANGED <<fvars, qdIdx, qdLog, qdResult, failMsgs, cfgMsgs,
                            depsOk, dirs, installRuns, child, srvCalls, exitStatus>>
    /\ (dpc \in {"m_install", "m_setup", "m_tests"} /\ dpc' # dpc /\ ~interrupted') =>
          dpc' = "pause" /\ choice \in {"2", "3", "4"}
    /\ (dpc = "pause" /\ dpc' # dpc /\ ~interrupted') => dpc' = "menu"
    /\ (dpc # "menu" /\ choice \in {"1", "5", "6"}) => dpc' \notin {"menu", "pause"}

C21_MenuLoop == [][C21_MenuLoopStep]_vars

\* an unknown input was typed and the menu is shown again
C21_Witness ==
    /\ dpc = "menu"
    /\ choice = "abc"


(***************************************************************************)
(* C22  With the credentials present in .env but holding placeholder       *)
(* values (sk-your-..., your-...) the configuration check reports both     *)
(* providers as unconfigured, in deploy.check_configuration, in            *)
(* quick_start.test_api_keys and in test_system.test_environment.          *)
(***************************************************************************)
Printed(out, tag) == \E i \in 1..Len(out) : out[i] = tag

PlaceholdersStored == envExists /\ envFile = FilePlaceholder

C22_PlaceholdersReportedUnconfigured ==
    PlaceholdersStored =>
        /\ cfgMsgs # {} =>
              {"openai_unconfigured", "tencent_unconfigured"} \subseteq cfgMsgs
        /\ Printed(qOut, "keys_not_configured") =>
              /\ Printed(qOut, "openai_unconfigured")
              /\ Printed(qOut, "tencent_unconfigured")
        /\ results # <<>> =>
              /\ results[1][2] = FALSE
              /\ Printed(tOut, "OPENAI_API_KEY")
              /\ Printed(tOut, "TENCENT_SECRET_ID")


(***************************************************************************)
(* C23  The display of an existing credential of length L >= 14 consists   *)
(* of exactly the configured prefix (10 characters of the OpenAI key, 8 of *)
(* the Tencent secret id), the fixed placeholder "..." and exactly the     *)
(* last 4 characters, whatever the content.                                *)
(***************************************************************************)
MaskedAs(text, secret, n) ==
    /\ Len(text) = n + Len(Dots) + suffix_len
    /\ SubSeq(text, 1, n) = SubSeq(secret, 1, n)
    /\ SubSeq(text, n + 1, n + Len(Dots)) = Dots
    /\ SubSeq(text, n + Len(Dots) + 1, Len(text))
          = SubSeq(secret, Len(secret) - suffix_len + 1, Len(secret))

C23_MaskShowsPrefixAndSuffix ==
    Len(secIn) >= 14 =>
        /\ shown.kind = "openai" => MaskedAs(shown.text, secIn, 10)
        /\ shown.kind = "tencent" => MaskedAs(shown.text, secIn, 8)

\* a credential of the greatest enumerated length was displayed
C23_Witness ==
    /\ shown.kind = "openai"
    /\ Len(secIn) = MaxSecretLen
    /\ Len(secIn) >= 14

(***************************************************************************)
(* C24  A stored credential is never displayed in plaintext: for every     *)
(* stored secret that is not a placeholder, of any length, the text        *)
(* printed with the keep prompt leaves out at least one of its characters. *)
(***************************************************************************)
C24_DisplayHidesSomething ==
    shown.kind # "none" => Len(shown.text) - Len(Dots) < Len(secIn)

(***************************************************************************)
(* C25  The two selector keys are always persisted within their value      *)
(* sets: after a completed provisioning run SPEECH_SERVICE is one of       *)
(* openai, xunfei, tencent and VIDEO_SERVICE one of tencent, local; an     *)
(* empty or unrecognised line at either prompt yields the default (openai, *)
(* tencent), never an error or a value outside the set.                    *)
(***************************************************************************)
SpeechValues == {OPENAI, XUNFEI, TENCENT}
VideoValues == {TENCENT, LOCALSVC}

C25_SelectorsWithinValueSets ==
    /\ ppc = "done" =>
          /\ Lookup(envFile, "SPEECH_SERVICE") \in SpeechValues
          /\ Lookup(envFile, "VIDEO_SERVICE") \in VideoValues
    /\ \A i \in 1..Len(optSettings) :
          optSettings[i][2] \in (IF optSettings[i][1] = "SPEECH_SERVICE"
                                 THEN SpeechValues ELSE VideoValues)
    /\ \A raw \in OptionInputs :
          /\ Strip(raw) \notin {<<"1">>, <<"2">>, <<"3">>} =>
                service_map(get_user_input(raw, ONE, FALSE)) = OPENAI
          /\ Strip(raw) \notin {<<"1">>, <<"2">>} =>
                video_service_map(get_user_input(raw, ONE, FALSE)) = TENCENT

\* a completed run that stored a non-default value for both selectors
C25_Witness ==
    /\ ppc = "done"
    /\ Lookup(envFile, "SPEECH_SERVICE") = XUNFEI
    /\ Lookup(envFile, "VIDEO_SERVICE") = LOCALSVC

(***************************************************************************)
(* C26  After a provisioning run in which nobody else edits the file, the  *)
(* value stored under each credential key is the value it had before the   *)
(* run, or a value the user kept, or one that passed live verification in  *)
(* this run; a credential that failed verification and was skipped is      *)
(* never written, and skipping a service leaves all of its keys unchanged. *)
(* C26_StoredCredentialsAccepted is the claim as stated, with "before the  *)
(* run" the store as load_dotenv found it; C26_StoredCredentialsAcceptedOrTemplate *)
(* is the amended claim, where a file that save_configuration creates from *)
(* .env.example starts with the template's values.                         *)
(***************************************************************************)
CredentialKeys == {"OPENAI_API_KEY"} \cup {TencentAliases[i] : i \in 1..Len(TencentAliases)}

IdKeys == {"TENCENT_SECRET_ID", "TENCENT_ASR_SECRET_ID", "TENCENT_TMT_SECRET_ID"}

\* the value v under key k was kept by the user or verified in this run
AcceptedValue(k, v) ==
    IF k = "OPENAI_API_KEY"
    THEN /\ v = openai_key
         /\ Truthy(openai_key)
         /\ \/ kept.openai
            \/ lastTest.openai.result = "True" /\ lastTest.openai.arg = v
    ELSE /\ v = (IF k \in IdKeys THEN tencent_id ELSE tencent_key)
         /\ Truthy(tencent_id) /\ Truthy(tencent_key)
         /\ \/ kept.tencent
            \/ /\ lastTest.tencent.result = "True"
               /\ lastTest.tencent.arg = tencent_id \o tencent_key

\* the run is over (completed, failed or interrupted), and the store was
\* edited by nobody else meanwhile
RunEnded == ppc \in {"done", "exited"} /\ edits = 0

C26_StoredCredentialsAccepted ==
    RunEnded =>
        /\ \A k \in CredentialKeys :
              \/ Lookup(envFile, k) = environ[k]
              \/ AcceptedValue(k, Lookup(envFile, k))
        /\ openai_key = None =>
              Lookup(envFile, "OPENAI_API_KEY") = environ["OPENAI_API_KEY"]
        /\ tencent_id = None =>
              \A k \in CredentialKeys \ {"OPENAI_API_KEY"} :
                  Lookup(envFile, k) = environ[k]

\* the store as the writes of save_configuration found it
BeforeWrites(k) == IF written = <<>> THEN environ[k] ELSE Lookup(storeBefore, k)

C26_StoredCredentialsAcceptedOrTemplate ==
    RunEnded =>
        /\ \A k \in CredentialKeys :
              \/ Lookup(envFile, k) = BeforeWrites(k)
              \/ AcceptedValue(k, Lookup(envFile, k))
        /\ openai_key = None =>
              Lookup(envFile, "OPENAI_API_KEY") = BeforeWrites("OPENAI_API_KEY")
        /\ tencent_id = None =>
              \A k \in CredentialKeys \ {"OPENAI_API_KEY"} :
                  Lookup(envFile, k) = BeforeWrites(k)
        /\ written # <<>> /\ environ # EmptyEnviron =>
              \A k \in CredentialKeys : BeforeWrites(k) = environ[k]

\* a completed run in which a Tencent pair failed verification and was
\* skipped while an OpenAI key was verified and stored
C26_Witness ==
    /\ ppc = "done"
    /\ edits = 0
    /\ tencent_id = None
    /\ lastTest.tencent.result = "False"
    /\ lastTest.openai.result = "True"
    /\ Lookup(envFile, "OPENAI_API_KEY") = openai_key
    /\ Lookup(envFile, "OPENAI_API_KEY") # environ["OPENAI_API_KEY"]

(***************************************************************************)
(* C28  A quick-deploy run never goes past the dependency step while a     *)
(* core dependency is missing: whenever the configuration check has been   *)
(* started the core dependencies are importable, and a remediation install *)
(* that was reported as successful left them importable.                   *)
(***************************************************************************)
C28_NoConfigurationCheckWithoutDependencies ==
    \A i \in 1..Len(qdLog) :
        /\ (qdLog[i].ev = "start" /\ qdLog[i].step = "check_configuration") => depsOk
        /\ (qdLog[i].ev = "remediate" /\ qdLog[i].res = "True") => depsOk

(***************************************************************************)
(* C29  The menu's configure-credentials action runs the provisioner with  *)
(* the single input line "y"; when the existing credentials are not        *)
(* placeholders this drives the provisioner through both services and the  *)
(* optional settings to save_configuration, and setup_configuration        *)
(* returns success; the provisioner is never left blocked on a prompt.     *)
(***************************************************************************)
\* what subprocess.run reports for the provisioner that has ended
ChildOutcome == IF pExit = "0" THEN "rc0" ELSE "rc_nonzero"

ExistingCredentials ==
    /\ Existing(Getenv(environ, "OPENAI_API_KEY", Empty), SKYOUR)
    /\ Existing(Getenv(environ, "TENCENT_SECRET_ID", Empty), YOUR)

C29_ScriptedRunSavesAndSucceeds ==
    ~stdin.tty =>
        /\ (ppc \in {"done", "exited"} /\ ~pInterrupted /\ ExistingCredentials) =>
              /\ ppc = "done"
              /\ kept.openai /\ kept.tencent
              /\ written # <<>>
              /\ setup_configuration(ChildOutcome) = "True"
        /\ ppc \in PromptStates =>
              \/ ENABLED PromptEof
              \/ \E raw \in {Y} : ENABLED OaKeep(raw) \/ ENABLED OaEntry(raw)
                                     \/ ENABLED TcKeep(raw) \/ ENABLED TcEntryId(raw)

(***************************************************************************)
(* C27  Every HTTP probe is issued while the transient service instance    *)
(* is still alive: under every interleaving of the background thread       *)
(* (instance killed when its 5-unit timeout expires) with the main flow    *)
(* (3-unit settle delay, then four sequential probes of up to 5 units      *)
(* each), no probe is sent after the instance has been terminated.         *)
(***************************************************************************)
C27_NoProbeAfterTermination ==
    \A i \in 1..Len(probes) : probes[i].alive

====
